---- MODULE Spec2Model ----
(***************************************************************************)
(* Model of the background-task core of src/organaizer.py:                 *)
(*   - MainWindow.start_worker / request_worker_stop / the queued signal   *)
(*     delivery to the controller (the "orchestrator"),                    *)
(*   - NormalizeWorker.run with FileManager.normalize_and_save and         *)
(*     FileManager.move_or_delete_original,                                *)
(*   - FileScannerWorker.run with FileManager.load_music_files,            *)
(*   - FileManager.move_or_delete_original called on its own (MoveSpec).   *)
(* The worker runs on its own QThread; its run method is cut into steps at *)
(* every point where it reads the interruption flag, touches a file or     *)
(* emits a signal, so that the controller's actions interleave with it.    *)
(***************************************************************************)
EXTENDS Integers, Sequences, FiniteSets, TLC

\* ---------------------------------------------------------------- bounds
\* Number of start_worker calls explored.
MaxSubmits == 3
\* Number of request_worker_stop calls explored.
MaxStops == 2

\* ------------------------------------------------------------- constants
\* self.active_worker_thread = None
NoThread == 0
\* TARGET_LUFS_DEFAULT = -14.0
TARGET_LUFS_DEFAULT == -14
\* pyln.Meter(44100): the rate the shared meter is created with
InitialMeterRate == 44100
\* the non-finite loudness pyloudnorm reports when no block passes its gate
\* (-inf for digital silence), as a number below every finite loudness
MinusInf == -100000
\* measured_lufs < -70.0
SilenceThreshold == -70
\* amplitudes are fixed-point numbers in thousandths: 1.0 is 1000
FullScale == 1000
\* 0.977 / max_amplitude: the peak after limiting, in thousandths
PeakTarget == 977

\* Optional values: None is the empty sequence, a value v is <<v>>.
None == <<>>
Some(v) == <<v>>

VARIABLES
    \* --- the disk
    srcExists,              \* os.path.isfile(source_path)
    dest,                   \* the file at destination_path:
                            \*   "absent" | "preexisting" | "partial" | "written"
    \* --- MainWindow
    active_worker_thread,   \* NoThread or the id of the QThread
    worker_object,          \* None or <<worker>>
    threads,                \* ids of the QThreads created so far
    running,                \* ids of the QThreads for which isRunning() holds
    interruption,           \* ids of the QThreads with isInterruptionRequested()
    connections,            \* handler connections on each worker class's signals object
    busy,                   \* _set_busy state
    submits,                \* number of start_worker calls made
    lastStart,              \* return value of the last start_worker call
    stops,                  \* number of request_worker_stop calls made
    current_preview_temp_path,  \* None or <<path of the preview's WAV file>>
    original_file_for_preview,  \* None or <<path of the previewed file>>
    preview_button_checked,     \* self.preview_button.isChecked()
    finished_branch,        \* None or <<the branch the last call of
                            \*   _on_worker_finished took>>
    window,                 \* the main window: "open" | "closing" (inside
                            \*   closeEvent, the stop requested) | "closed"
    lufs_meter_rate,        \* self.lufs_meter.rate
    \* --- signals
    emitted,                \* signals emitted by the worker, in emission order
    queue,                  \* slot calls posted to the controller's event queue
    delivered,              \* slot calls the controller has run, in order
    \* --- the worker's run
    pc,                     \* position of the worker in run()
    audio,                  \* None or <<audio_data>> read by sf.read
    measured_lufs,          \* normalize_and_save's measured_lufs
    did_clip,               \* normalize_and_save's did_clip
    normalized_audio,       \* None or <<normalized_audio>> after gain, limiting
                            \*   and np.clip
    written_audio,          \* None or <<the buffer sf.write stored>>
    ret,                    \* value returned by normalize_and_save
    norm_result,            \* NormalizeWorker.run's norm_result
    observed,               \* checkpoints that found the interruption flag set
    \* --- the scan
    directory,              \* None (not a directory) or <<tree>>: the scanned
                            \*   directory's listings in os.walk order
    dirIdx,                 \* position of the walk in the tree
    fileIdx,                \* position of the file loop in the listing
    music_files_data,       \* load_music_files' music_files_data
    processed_after_request,\* number of files _process_file was called for
                            \*   while the thread's interruption flag was set
    scan_ret,               \* value returned by load_music_files
    \* --- a call of move_or_delete_original
    mv_pc,                  \* position in the call ("off": no call is made)
    mv_source,              \* what source_full_path names:
                            \*   "original" (the file) | "directory" | "absent"
    mv_folder,              \* the destination_folder argument: None or
                            \*   <<[name, isdir]>>
    mv_target,              \* what destination_full_path names: "absent" |
                            \*   "other" (another file) | "directory" |
                            \*   "original" | "copy" | "partial"
    mv_error,               \* None or <<the exception os.rename raised>>
    mv_cleanup,             \* outcome of the removal of the copied target:
                            \*   "none" | "removed" | "failed"
    mv_ret                  \* None or <<the tuple returned>>

diskVars == <<srcExists, dest>>
previewVars == <<current_preview_temp_path, original_file_for_preview,
                 preview_button_checked>>
ctlVars  == <<active_worker_thread, worker_object, threads, running,
              connections, busy, submits, lastStart, stops, previewVars,
              finished_branch, window>>
sigVars  == <<emitted, queue, delivered>>
scanVars == <<directory, dirIdx, fileIdx, music_files_data,
              processed_after_request, scan_ret>>
bufVars  == <<normalized_audio, written_audio>>
moveVars == <<mv_pc, mv_source, mv_folder, mv_target, mv_error, mv_cleanup,
              mv_ret>>
locVars  == <<audio, measured_lufs, did_clip, ret, norm_result,
              normalized_audio, written_audio>>
vars     == <<srcExists, dest, active_worker_thread, worker_object, threads,
              running, interruption, connections, busy, submits, lastStart,
              stops, current_preview_temp_path, original_file_for_preview,
              preview_button_checked, finished_branch, window, lufs_meter_rate, emitted, queue, delivered, pc, audio,
              measured_lufs, did_clip, ret, norm_result, normalized_audio,
              written_audio, observed, directory, dirIdx, fileIdx,
              music_files_data, processed_after_request, scan_ret, mv_pc, mv_source, mv_folder,
              mv_target, mv_error, mv_cleanup, mv_ret>>

\* ------------------------------------------------------------ the workers
\* FileScannerWorker(file_manager, directory, recursive)
ScanWorker(recursive) ==
    [cls |-> "scan", is_preview |-> FALSE, delete_original |-> FALSE,
     recursive |-> recursive]

\* NormalizeWorker(..., is_preview=True, delete_original_on_success=False)
PreviewWorker ==
    [cls |-> "norm", is_preview |-> TRUE, delete_original |-> FALSE,
     recursive |-> FALSE]

\* NormalizeWorker(..., is_preview=False, delete_original_on_success=True)
MoveWorker ==
    [cls |-> "norm", is_preview |-> FALSE, delete_original |-> TRUE,
     recursive |-> FALSE]

NormWorkers == {PreviewWorker, MoveWorker}

\* The worker that holds the execution slot.
W == worker_object[1]

\* action_verb = "Anteprima" if self.is_preview else "Normalizzazione"
action_verb(w) == IF w.is_preview THEN "Anteprima" ELSE "Normalizzazione"

\* ------------------------------------------------------------ the signals
\* WorkerSignals: finished(object), error(str), progress(str), cancelled(str)
Signal(sig, msg, res) == [sig |-> sig, msg |-> msg, res |-> res]

Terminal == {"finished", "error", "cancelled"}

IsTerminal(e) == e.sig \in Terminal

\* Mutant of Post: the call is put at the front of the event queue.
PostFront(q, e, n) == [i \in 1..n |-> e] \o q

\* A signal emitted on the worker thread calls each connected slot of the
\* controller through the controller's event queue, one posted call per
\* connection, in emission order.
Post(q, e, n) == q \o [i \in 1..n |-> e]

Emit(e) ==
    /\ emitted' = Append(emitted, e)
    /\ queue' = Post(queue, e, connections[W.cls])
    /\ UNCHANGED delivered

\* thread.isInterruptionRequested() of the worker's thread
InterruptionRequested == active_worker_thread \in interruption

\* NormalizeWorker.NormalizeResult
NormalizeResult(success, message, lufs, output_path, delete_success) ==
    [success |-> success, message |-> message, measured_lufs |-> lufs,
     output_path |-> output_path, delete_success |-> delete_success]

\* norm_result = NormalizeResult(success=False, message="Inizio", output_path=None)
InitialResult == NormalizeResult(FALSE, "Inizio", None, None, None)

\* the tuple normalize_and_save returns
Ret(ok, msg, lufs) == [ok |-> ok, msg |-> msg, lufs |-> lufs]

\* --------------------------------------------------------------- inputs
\* Audio a source file can hold: its rate, the integrated loudness the meter
\* reports for it and its samples (float32 amplitudes, in thousandths).
\* The meter measures whole 400 ms blocks only, so a click in the last
\* milliseconds of an otherwise silent file is not measured; decoded samples
\* are floats and are not confined to [-1.0, 1.0].
AudioInputs ==
    { [rate |-> 44100, lufs |-> MinusInf, samples |-> <<0, 0>>],
      [rate |-> 44100, lufs |-> MinusInf, samples |-> <<0, 0, 1500>>],
      [rate |-> 48000, lufs |-> -71, samples |-> <<2, -1>>],
      [rate |-> 44100, lufs |-> -70, samples |-> <<1, -1>>],
      [rate |-> 48000, lufs |-> -18, samples |-> <<400, -250>>],
      [rate |-> 44100, lufs |-> -18, samples |-> <<300, -900>>],
      [rate |-> 44100, lufs |-> -14, samples |-> <<1000, -500>>],
      [rate |-> 48000, lufs |-> -6, samples |-> <<990, -1200>>] }

\* str(e) of the exceptions a task meets that the code does not classify
ExceptionTexts == {"System error.", "[Errno 5] Input/output error"}

\* error_msg = f"Errore non gestito in {self.objectName()}: {e}"
error_msg(e) == "Errore non gestito: " \o e

\* msg of a failed sf.read: one of the three classified reasons, and
\* f"Errore lettura audio: {sf_read_err}" for every other exception
ReadErrors ==
    {"Formato audio non riconosciuto", "Permesso negato lettura audio",
     "File audio senza dati (o corrotto)"}
    \cup {"Errore lettura audio: " \o e : e \in ExceptionTexts}

\* 10.0 ** (d / 20.0) in thousandths for d = 0 .. 19 whole decibels
GainTable ==
    <<1000, 1122, 1259, 1413, 1585, 1778, 1995, 2239, 2512, 2818,
      3162, 3548, 3981, 4467, 5012, 5623, 6310, 7079, 7943, 8913>>

RECURSIVE Pow10(_)
Pow10(n) == IF n = 0 THEN 1 ELSE 10 * Pow10(n - 1)

\* gain_linear = 10.0 ** (gain_db / 20.0), in thousandths, for whole decibels:
\* 10 ** (gain_db div 20) times the table's value for gain_db mod 20
gain_linear(gain_db) ==
    LET decades == gain_db \div 20
        within  == GainTable[(gain_db % 20) + 1]
    IN  IF decades >= 0 THEN within * Pow10(decades)
                        ELSE within \div Pow10(-decades)

Abs(x) == IF x < 0 THEN -x ELSE x

\* np.max(np.abs(buffer))
MaxAbs(buffer) ==
    CHOOSE m \in {Abs(buffer[i]) : i \in 1..Len(buffer)} :
        \A i \in 1..Len(buffer) : Abs(buffer[i]) <= m

\* one sample times a factor (both in thousandths)
Scale(x, factor) ==
    IF x < 0 THEN -((-x * factor) \div FullScale)
             ELSE (x * factor) \div FullScale

\* (buffer.astype(np.float64) * factor).astype(np.float32)
ApplyFactor(buffer, factor) ==
    [i \in 1..Len(buffer) |-> Scale(buffer[i], factor)]

\* np.max(np.abs(audio * gain_linear)), in thousandths
PostGainPeak(buffer, gain_db) == MaxAbs(ApplyFactor(buffer, gain_linear(gain_db)))

\* Mutant of peak_norm_factor: the buffer is scaled by 0.977 itself.
peak_norm_factor_constant(max_amplitude) == PeakTarget

\* Mutant of peak_norm_factor: the peak is brought to full scale, not to 0.977.
peak_norm_factor_full_scale(max_amplitude) ==
    (FullScale * FullScale) \div max_amplitude

\* peak_norm_factor = 0.977 / max_amplitude
peak_norm_factor(max_amplitude) == (PeakTarget * FullScale) \div max_amplitude

\* np.clip(normalized_audio, -1.0, 1.0, out=normalized_audio)
Clip(buffer) ==
    [i \in 1..Len(buffer) |->
        IF buffer[i] > FullScale THEN FullScale
        ELSE IF buffer[i] < -FullScale THEN -FullScale ELSE buffer[i]]

\* Mutant of gain_db: the difference is taken the wrong way round.
gain_db_reversed(target_lufs, lufs) == lufs - target_lufs

\* gain_db = target_lufs - measured_lufs
gain_db(target_lufs, lufs) == target_lufs - lufs

\* Steps 4 and 5 of normalize_and_save on a buffer measured at lufs: the gain
\* is applied, did_clip = max_amplitude > 1.0, a clipping buffer is rescaled
\* by peak_norm_factor, and the result is clipped to [-1.0, 1.0].
NormalizedAudio(buffer, target_lufs, lufs) ==
    LET gained        == ApplyFactor(buffer, gain_linear(gain_db(target_lufs, lufs)))
        max_amplitude == MaxAbs(gained)
        clip          == max_amplitude > FullScale
        limited       == IF clip
                            THEN ApplyFactor(gained, peak_norm_factor(max_amplitude))
                            ELSE gained
    IN  [did_clip |-> clip, buffer |-> Clip(limited)]

\* Mutant of IsSilent: a loudness of exactly -70 counts as silence.
IsSilentInclusive(lufs) == lufs = MinusInf \/ lufs <= SilenceThreshold

\* not np.isfinite(measured_lufs) or measured_lufs < -70.0
IsSilent(lufs) == lufs = MinusInf \/ lufs < SilenceThreshold

\* Directory entries: the file name, the rank of filename.lower() in string
\* order, whether the name passes the '.mp3' filter, whether os.access
\* grants reading, and what mutagen extracts: <<audio_meta.info.length in
\* milliseconds>>, or None when the extraction fails (mutagen raises, finds
\* no length, or is not installed).
Entry(filename, key, mp3, readable, length) ==
    [filename |-> filename, key |-> key, mp3 |-> mp3, readable |-> readable,
     length |-> length]

FileA == Entry("a.mp3", 1, TRUE, TRUE, Some(180000))
FileB == Entry("B.MP3", 2, TRUE, TRUE, None)
FileC == Entry("c.mp3", 3, TRUE, FALSE, None)
FileT == Entry("notes.txt", 4, FALSE, TRUE, None)

\* The directory trees scanned: each is the sequence of listings os.walk
\* yields, the first being the listing of the directory itself.
Trees ==
    { << <<FileB, FileT, FileA>>, <<FileC>> >>,
      << <<FileT>>, <<FileA>> >>,
      << <<FileB>>, <<FileA>> >>,
      << <<>> >> }

\* ------------------------------------------------------------------ Init
\* the main window after construction, no task submitted yet
MainInit ==
    /\ directory \in {None} \cup {Some(t) : t \in Trees}
    /\ dirIdx = 1
    /\ fileIdx = 1
    /\ music_files_data = <<>>
    /\ processed_after_request = 0
    /\ scan_ret = None
    /\ srcExists \in BOOLEAN
    /\ dest \in {"absent", "preexisting"}
    /\ active_worker_thread = NoThread
    /\ worker_object = None
    /\ threads = {}
    /\ running = {}
    /\ interruption = {}
    /\ connections = [c \in {"scan", "norm"} |-> 0]
    /\ busy = FALSE
    /\ submits = 0
    /\ lastStart = FALSE
    /\ stops = 0
    /\ current_preview_temp_path = None
    /\ original_file_for_preview = None
    /\ preview_button_checked = FALSE
    /\ finished_branch = None
    /\ window = "open"
    /\ lufs_meter_rate = InitialMeterRate
    /\ emitted = <<>>
    /\ queue = <<>>
    /\ delivered = <<>>
    /\ pc = "idle"
    /\ audio = None
    /\ measured_lufs = None
    /\ did_clip = FALSE
    /\ normalized_audio = None
    /\ written_audio = None
    /\ ret = None
    /\ norm_result = None
    /\ observed = {}

\* no call of move_or_delete_original outside a task is in progress
MoveOff ==
    /\ mv_pc = "off"
    /\ mv_source = "original"
    /\ mv_folder = None
    /\ mv_target = "absent"
    /\ mv_error = None
    /\ mv_cleanup = "none"
    /\ mv_ret = None

Init == MainInit /\ MoveOff

\* ----------------------------------------------------------- MainWindow
\* Mutant of WorkerActive: the isRunning() test negated.
WorkerActiveNegated ==
    active_worker_thread # NoThread /\ active_worker_thread \notin running

\* if self.active_worker_thread and self.active_worker_thread.isRunning()
WorkerActive ==
    active_worker_thread # NoThread /\ active_worker_thread \in running

\* Mutant of StartWorkerBusy: the handlers are connected before the busy test.
StartWorkerBusyConnects ==
    /\ submits < MaxSubmits
    /\ active_worker_thread # NoThread /\ active_worker_thread \in running
    /\ submits' = submits + 1
    /\ lastStart' = FALSE
    /\ connections' = [connections EXCEPT ![worker_object[1].cls] = @ + 1]
    /\ UNCHANGED <<moveVars, previewVars, finished_branch, window, scanVars, diskVars, active_worker_thread, worker_object,
                   threads, running, interruption, busy, stops,
                   lufs_meter_rate, sigVars, pc, locVars, observed>>

\* Mutant of StartWorkerBusy: a second thread is started beside the active one.
StartWorkerBusyStarts ==
    /\ submits < MaxSubmits
    /\ active_worker_thread # NoThread /\ active_worker_thread \in running
    /\ submits' = submits + 1
    /\ lastStart' = TRUE
    /\ LET t == Cardinality(threads) + 1 IN
         /\ threads' = threads \cup {t}
         /\ running' = running \cup {t}
    /\ UNCHANGED <<moveVars, previewVars, finished_branch, window, scanVars, diskVars, active_worker_thread, worker_object,
                   interruption, connections, busy, stops,
                   lufs_meter_rate, sigVars, pc, locVars, observed>>

\* start_worker, a worker being active: warn and return False.
StartWorkerBusy ==
    /\ window = "open"
    /\ submits < MaxSubmits
    /\ WorkerActive
    /\ submits' = submits + 1
    /\ lastStart' = FALSE
    /\ UNCHANGED <<moveVars, previewVars, finished_branch, window, scanVars, diskVars, active_worker_thread, worker_object, threads,
                   running, interruption, connections, busy, stops,
                   lufs_meter_rate, sigVars, pc, locVars, observed>>

\* _toggle_preview_normalization(checked=True) up to its start_worker call:
\* the preview button has been checked by the click, and the paths of the
\* temporary file and of the previewed file are stored.
PreviewRequested ==
    /\ current_preview_temp_path' = Some("temp_file_path")
    /\ original_file_for_preview' = Some("source_path")
    /\ preview_button_checked' = TRUE

\* start_worker, no worker being active: a new QThread is created, the worker
\* is stored, the four handlers are connected to the signals object of the
\* worker's class, the thread is started (which calls worker.run on it) and
\* the window is set busy.  A preview worker is submitted by
\* _toggle_preview_normalization, which stores the preview's paths first.
StartWorkerAccepted(w) ==
    /\ window = "open"
    /\ submits < MaxSubmits
    /\ ~WorkerActive
    /\ IF w.is_preview THEN PreviewRequested ELSE UNCHANGED previewVars
    /\ LET t == Cardinality(threads) + 1 IN
         /\ threads' = threads \cup {t}
         /\ running' = running \cup {t}
         /\ active_worker_thread' = t
    /\ worker_object' = Some(w)
    /\ connections' = [connections EXCEPT ![w.cls] = @ + 1]
    /\ busy' = TRUE
    /\ submits' = submits + 1
    /\ lastStart' = TRUE
    /\ pc' = IF w.cls = "norm" THEN "n_start" ELSE "s_start"
    /\ UNCHANGED <<moveVars, finished_branch, window, scanVars, diskVars, interruption, stops, lufs_meter_rate,
                   sigVars, locVars, observed>>

\* Mutant of RequestWorkerStop: the request also terminates the thread.
RequestWorkerStopAborts ==
    /\ stops < MaxStops
    /\ active_worker_thread # NoThread /\ active_worker_thread \in running
    /\ stops' = stops + 1
    /\ interruption' = interruption \cup {active_worker_thread}
    /\ running' = running \ {active_worker_thread}
    /\ UNCHANGED <<moveVars, previewVars, finished_branch, window, scanVars, diskVars, active_worker_thread, worker_object,
                   threads, connections, busy, submits, lastStart,
                   lufs_meter_rate, sigVars, pc, locVars, observed>>

\* request_worker_stop, a worker being active: requestInterruption() on its
\* thread, nothing else.
RequestWorkerStop ==
    /\ window = "open"
    /\ stops < MaxStops
    /\ WorkerActive
    /\ stops' = stops + 1
    /\ interruption' = interruption \cup {active_worker_thread}
    /\ UNCHANGED <<moveVars, previewVars, finished_branch, window, scanVars, diskVars, active_worker_thread, worker_object,
                   threads, running, connections, busy, submits, lastStart,
                   lufs_meter_rate, sigVars, pc, locVars, observed>>

\* request_worker_stop, no worker being active: only a debug log.
RequestWorkerStopIdle ==
    /\ window = "open"
    /\ stops < MaxStops
    /\ ~WorkerActive
    /\ stops' = stops + 1
    /\ UNCHANGED <<moveVars, previewVars, finished_branch, window, scanVars, diskVars, active_worker_thread, worker_object,
                   threads, running, interruption, connections, busy, submits,
                   lastStart, lufs_meter_rate, sigVars, pc, locVars, observed>>

\* self.sender() inside a slot run for a signal of worker.signals: the
\* object the signal belongs to, which is the WorkerSignals object that the
\* worker's class holds as its signals attribute, not the worker.
sender(w) == "WorkerSignals"

\* _on_worker_finished: isinstance(self.sender(), FileScannerWorker) calls
\* _on_scan_finished; isinstance(self.sender(), NormalizeWorker) calls
\* _on_preview_generated or _on_normalize_move_finished by is_preview; any
\* other sender is logged as an unknown worker.
OnWorkerFinishedBranch(sender_class, w) ==
    IF sender_class = "FileScannerWorker" THEN "_on_scan_finished"
    ELSE IF sender_class = "NormalizeWorker"
            THEN IF w.is_preview THEN "_on_preview_generated"
                                 ELSE "_on_normalize_move_finished"
            ELSE "unknown worker"

\* The controller's event loop runs the next posted slot call
\* (_on_worker_finished, _on_worker_error, _on_worker_cancelled or the
\* progress lambda).  _on_worker_error shows a message box,
\* _on_worker_cancelled and the progress lambda show a status message, and
\* _on_worker_finished takes the branch its sender selects.
Deliver ==
    /\ window = "open"
    /\ queue # <<>>
    /\ delivered' = Append(delivered, Head(queue))
    /\ queue' = Tail(queue)
    /\ finished_branch' =
          IF Head(queue).sig = "finished"
             THEN Some(OnWorkerFinishedBranch(sender(W), W))
             ELSE finished_branch
    /\ UNCHANGED <<moveVars, scanVars, diskVars, active_worker_thread,
                   worker_object, threads, running, connections, busy,
                   submits, lastStart, stops, previewVars, window,
                   interruption, lufs_meter_rate, emitted, pc, locVars,
                   observed>>

\* _cleanup_preview_file: when current_preview_temp_path is set and a file
\* exists at it, os.remove is called, and an OSError it raises is only
\* logged; the path is cleared in every case.  The preview's temporary file
\* is the file at the preview task's destination_path.
CleanupPreviewFile ==
    /\ IF current_preview_temp_path # None /\ dest # "absent"
          THEN dest' \in {"absent", dest}
          ELSE dest' = dest
    /\ current_preview_temp_path' = None

\* _stop_playback, no preview being played: _set_playing_indicator(None,
\* None, False) clears original_file_for_preview, _cleanup_preview_file
\* runs, and _update_button_states sets the preview button to
\* is_preview_playing, which is False.
StopPlayback ==
    /\ original_file_for_preview' = None
    /\ CleanupPreviewFile
    /\ preview_button_checked' = FALSE

\* closeEvent, a worker being active and the question answered Yes:
\* request_worker_stop() is called and the handler goes on without waiting
\* for the task.  (Answered No, the event is ignored and nothing changes.)
CloseEventStop ==
    /\ window = "open"
    /\ WorkerActive
    /\ stops' = stops + 1
    /\ interruption' = interruption \cup {active_worker_thread}
    /\ window' = "closing"
    /\ UNCHANGED <<moveVars, previewVars, finished_branch, scanVars, diskVars,
                   active_worker_thread, worker_object, threads, running,
                   connections, busy, submits, lastStart, lufs_meter_rate,
                   sigVars, pc, locVars, observed>>

\* closeEvent from "Stop Playback & Release Player Resources" on, reached
\* directly when no worker is active: _stop_playback(), the player's
\* release, _cleanup_preview_file() once more (the path is cleared by then),
\* and event.accept().  The worker's thread is not waited for.
CloseEventAccept ==
    /\ \/ window = "closing"
       \/ window = "open" /\ ~WorkerActive
    /\ StopPlayback
    /\ window' = "closed"
    /\ UNCHANGED <<moveVars, finished_branch, scanVars, srcExists,
                   active_worker_thread, worker_object, threads, running,
                   interruption, connections, busy, submits, lastStart, stops,
                   lufs_meter_rate, sigVars, pc, locVars, observed>>

\* ------------------------------------------------- NormalizeWorker.run
\* what a worker step leaves alone besides the variables it names
WorkerFrame == <<ctlVars, interruption, moveVars>>

\* self.signals.progress.emit(f"{action_verb} '...'...")
NStart ==
    /\ pc = "n_start"
    /\ norm_result' = Some(InitialResult)
    /\ Emit(Signal("progress", action_verb(W), None))
    /\ pc' = "nas_entry"
    /\ UNCHANGED <<scanVars, diskVars, WorkerFrame, lufs_meter_rate, audio, bufVars,
                   measured_lufs, did_clip, ret, observed>>

\* an unexpected exception raised inside run's try block before
\* normalize_and_save is entered (except Exception as e)
NStartFault ==
    /\ pc = "n_start"
    /\ norm_result' = Some(InitialResult)
    /\ pc' = "n_except"
    /\ UNCHANGED <<scanVars, diskVars, WorkerFrame, lufs_meter_rate, sigVars, audio, bufVars,
                   measured_lufs, did_clip, ret, observed>>

\* A checkpoint records whether it found the interruption flag set.
Observe(cp) ==
    IF InterruptionRequested THEN observed \cup {cp} ELSE observed

\* ------------------------------------- FileManager.normalize_and_save
\* return False, "Operazione interrotta.", lufs
Interrupted(lufs) == Ret(FALSE, "Operazione interrotta.", lufs)

\* Mutant of NasSourceMissing: the missing source is not noticed and the
\* function goes on to its first checkpoint and the read.
NasSourceMissingGoesOn ==
    /\ pc = "nas_entry"
    /\ ~srcExists
    /\ pc' = "nas_cp1"
    /\ UNCHANGED <<scanVars, diskVars, WorkerFrame, lufs_meter_rate, sigVars, audio, bufVars,
                   measured_lufs, did_clip, ret, norm_result, observed>>

\* if not os.path.isfile(source_path): return False, "File sorgente non trovato", None
NasSourceMissing ==
    /\ pc = "nas_entry"
    /\ ~srcExists
    /\ ret' = Some(Ret(FALSE, "File sorgente non trovato", None))
    /\ pc' = "n_post"
    /\ UNCHANGED <<scanVars, diskVars, WorkerFrame, lufs_meter_rate, sigVars, audio, bufVars,
                   measured_lufs, did_clip, norm_result, observed>>

NasSourceFound ==
    /\ pc = "nas_entry"
    /\ srcExists
    /\ pc' = "nas_cp1"
    /\ UNCHANGED <<scanVars, diskVars, WorkerFrame, lufs_meter_rate, sigVars, locVars,
                   observed>>

\* Mutant of NasCheckpoint1: the checkpoint waits while the flag is set.
NasCheckpoint1Waits ==
    /\ pc = "nas_cp1"
    /\ ~InterruptionRequested
    /\ pc' = "nas_read"
    /\ UNCHANGED <<scanVars, diskVars, WorkerFrame, lufs_meter_rate, sigVars, audio, bufVars,
                   measured_lufs, did_clip, norm_result, ret, observed>>

\* first checkpoint: before the file is read
NasCheckpoint1 ==
    /\ pc = "nas_cp1"
    /\ observed' = Observe("pre_read")
    /\ IF InterruptionRequested
          THEN ret' = Some(Interrupted(None)) /\ pc' = "n_post"
          ELSE ret' = ret /\ pc' = "nas_read"
    /\ UNCHANGED <<scanVars, diskVars, WorkerFrame, lufs_meter_rate, sigVars, audio, bufVars,
                   measured_lufs, did_clip, norm_result>>

\* audio_data, rate = sf.read(source_path, dtype='float32')
NasRead ==
    /\ pc = "nas_read"
    /\ \E a \in AudioInputs : audio' = Some(a)
    /\ pc' = "nas_rate"
    /\ UNCHANGED <<scanVars, diskVars, WorkerFrame, lufs_meter_rate, sigVars,
                   measured_lufs, did_clip, ret, norm_result, bufVars,
                   observed>>

\* except Exception as sf_read_err: return False, f"{msg}: {filename}", None
NasReadFailed ==
    /\ pc = "nas_read"
    /\ \E msg \in ReadErrors : ret' = Some(Ret(FALSE, msg, None))
    /\ pc' = "n_post"
    /\ UNCHANGED <<scanVars, diskVars, WorkerFrame, lufs_meter_rate, sigVars, audio, bufVars,
                   measured_lufs, did_clip, norm_result, observed>>

\* if audio_data is None or audio_data.size == 0
NasReadEmpty ==
    /\ pc = "nas_read"
    /\ ret' = Some(Ret(FALSE, "Dati audio vuoti o invalidi.", None))
    /\ pc' = "n_post"
    /\ UNCHANGED <<scanVars, diskVars, WorkerFrame, lufs_meter_rate, sigVars, audio, bufVars,
                   measured_lufs, did_clip, norm_result, observed>>

\* Mutant of NasRate: the meter keeps the rate it had.
NasRateKept ==
    /\ pc = "nas_rate"
    /\ pc' = "nas_measure"
    /\ UNCHANGED <<scanVars, diskVars, WorkerFrame, lufs_meter_rate, sigVars,
                   locVars, observed>>

\* if lufs_meter.rate != rate: lufs_meter.rate = rate
NasRate ==
    /\ pc = "nas_rate"
    /\ lufs_meter_rate' = audio[1].rate
    /\ pc' = "nas_measure"
    /\ UNCHANGED <<scanVars, diskVars, WorkerFrame, sigVars, locVars, observed>>

\* except Exception as meter_rate_err: return False, "Errore init LUFS meter", None
NasRateFailed ==
    /\ pc = "nas_rate"
    /\ lufs_meter_rate # audio[1].rate
    /\ ret' = Some(Ret(FALSE, "Errore init LUFS meter", None))
    /\ pc' = "n_post"
    /\ UNCHANGED <<scanVars, diskVars, WorkerFrame, lufs_meter_rate, sigVars, audio, bufVars,
                   measured_lufs, did_clip, norm_result, observed>>

\* measured_lufs = lufs_meter.integrated_loudness(data_for_lufs)
NasMeasure ==
    /\ pc = "nas_measure"
    /\ measured_lufs' = Some(audio[1].lufs)
    /\ pc' = "nas_cp2"
    /\ UNCHANGED <<scanVars, diskVars, WorkerFrame, lufs_meter_rate, sigVars, audio, bufVars,
                   did_clip, ret, norm_result, observed>>

\* except Exception as lufs_err: return False, "Errore calcolo LUFS", None
NasMeasureFailed ==
    /\ pc = "nas_measure"
    /\ \E msg \in {"Errore calcolo LUFS", "Errore Memoria calcolo LUFS"} :
          ret' = Some(Ret(FALSE, msg, None))
    /\ pc' = "n_post"
    /\ UNCHANGED <<scanVars, diskVars, WorkerFrame, lufs_meter_rate, sigVars, audio, bufVars,
                   measured_lufs, did_clip, norm_result, observed>>

\* second checkpoint: after the loudness measurement; then the silence test
NasCheckpoint2 ==
    /\ pc = "nas_cp2"
    /\ observed' = Observe("post_measure")
    /\ IF InterruptionRequested
          THEN ret' = Some(Interrupted(measured_lufs)) /\ pc' = "n_post"
          ELSE /\ ret' = ret
               /\ pc' = IF IsSilent(measured_lufs[1]) THEN "nas_write_silent"
                                                      ELSE "nas_gain"
    /\ UNCHANGED <<scanVars, diskVars, WorkerFrame, lufs_meter_rate, sigVars, audio, bufVars,
                   measured_lufs, did_clip, norm_result>>

\* gain_db = target_lufs - measured_lufs; the gain is applied;
\* did_clip = max_amplitude > 1.0; if did_clip the buffer is rescaled by
\* peak_norm_factor; np.clip
NasGain ==
    /\ pc = "nas_gain"
    /\ LET out == NormalizedAudio(audio[1].samples, TARGET_LUFS_DEFAULT,
                                  measured_lufs[1])
       IN  /\ did_clip' = out.did_clip
           /\ normalized_audio' = Some(out.buffer)
    /\ pc' = "nas_cp3"
    /\ UNCHANGED <<scanVars, diskVars, WorkerFrame, lufs_meter_rate, sigVars, audio,
                   written_audio, measured_lufs, ret, norm_result, observed>>

\* except MemoryError: return False, "Errore Memoria", measured_lufs
NasGainFailed ==
    /\ pc = "nas_gain"
    /\ ret' = Some(Ret(FALSE, "Errore Memoria", measured_lufs))
    /\ pc' = "n_post"
    /\ UNCHANGED <<scanVars, diskVars, WorkerFrame, lufs_meter_rate, sigVars, audio, bufVars,
                   measured_lufs, did_clip, norm_result, observed>>

\* Mutant of NasCheckpoint3: the flag is tested after sf.write instead of before.
NasCheckpoint3AfterWrite ==
    /\ pc = "nas_cp3"
    /\ observed' = Observe("pre_write")
    /\ IF InterruptionRequested
          THEN ret' = Some(Interrupted(measured_lufs)) /\ pc' = "n_post"
                 /\ dest' = "written"
          ELSE ret' = ret /\ pc' = "nas_write" /\ dest' = dest
    /\ UNCHANGED <<scanVars, srcExists, WorkerFrame, lufs_meter_rate, sigVars,
                   audio, bufVars, measured_lufs, did_clip, norm_result>>

\* third checkpoint: before the output is written
NasCheckpoint3 ==
    /\ pc = "nas_cp3"
    /\ observed' = Observe("pre_write")
    /\ IF InterruptionRequested
          THEN ret' = Some(Interrupted(measured_lufs)) /\ pc' = "n_post"
          ELSE ret' = ret /\ pc' = "nas_write"
    /\ UNCHANGED <<scanVars, diskVars, WorkerFrame, lufs_meter_rate, sigVars, audio, bufVars,
                   measured_lufs, did_clip, norm_result>>

\* Mutant of completion_msg: the note is left out.
completion_msg_plain(clip) == "Normalizzato e salvato"

\* completion_msg = f"Normalizzato{' (con peak limiting)' if did_clip else ''} e salvato"
completion_msg(clip) ==
    IF clip THEN "Normalizzato (con peak limiting) e salvato"
            ELSE "Normalizzato e salvato"

\* sf.write(destination_path, normalized_audio, rate, format='WAV', subtype='FLOAT')
NasWrite ==
    /\ pc = "nas_write"
    /\ dest' = "written"
    /\ written_audio' = normalized_audio
    /\ ret' = Some(Ret(TRUE, completion_msg(did_clip), measured_lufs))
    /\ pc' = "n_post"
    /\ UNCHANGED <<scanVars, srcExists, WorkerFrame, lufs_meter_rate, sigVars, audio,
                   normalized_audio,
                   measured_lufs, did_clip, norm_result, observed>>

\* What a failed write leaves at destination_path: the file it found there
\* (the failure came before the file was opened) or a partial file.
AfterFailedWrite(d) == {d, "partial"}

\* if os.path.exists(destination_path): try: os.remove(...) except OSError: pass
AfterCleanup(d) == IF d = "absent" THEN {"absent"} ELSE {"absent", d}

\* except Exception as write_err: clean up, return False, msg, measured_lufs
NasWriteFailed ==
    /\ pc = "nas_write"
    /\ \E d \in AfterFailedWrite(dest) : dest' \in AfterCleanup(d)
    /\ ret' = Some(Ret(FALSE, "Scrittura file normalizzato fallita", measured_lufs))
    /\ pc' = "n_post"
    /\ UNCHANGED <<scanVars, srcExists, WorkerFrame, lufs_meter_rate, sigVars, audio, bufVars,
                   measured_lufs, did_clip, norm_result, observed>>

\* silent source: sf.write(destination_path, audio_data, ...) unmodified
NasWriteSilent ==
    /\ pc = "nas_write_silent"
    /\ dest' = "written"
    /\ written_audio' = Some(audio[1].samples)
    /\ ret' = Some(Ret(TRUE, "Copiato come WAV", measured_lufs))
    /\ pc' = "n_post"
    /\ UNCHANGED <<scanVars, srcExists, WorkerFrame, lufs_meter_rate, sigVars, audio,
                   normalized_audio,
                   measured_lufs, did_clip, norm_result, observed>>

\* except Exception as write_err_silence: return False, msg, measured_lufs
NasWriteSilentFailed ==
    /\ pc = "nas_write_silent"
    /\ dest' \in AfterFailedWrite(dest)
    /\ ret' = Some(Ret(FALSE, "Scrittura file (silenzio) fallita", measured_lufs))
    /\ pc' = "n_post"
    /\ UNCHANGED <<scanVars, srcExists, WorkerFrame, lufs_meter_rate, sigVars, audio, bufVars,
                   measured_lufs, did_clip, norm_result, observed>>

\* --------------------------------- NormalizeWorker.run, after the call
\* Mutant of InterruptedDuringNormalization: the check after the call is missing.
InterruptedDuringNormalizationSkipped == FALSE

\* if thread.isInterruptionRequested():   (the check that follows normalize_and_save)
InterruptedDuringNormalization == InterruptionRequested

\* cancelled: self.signals.cancelled.emit(f"{action_verb} annullata."); the
\* clean-up of the destination file follows the emission.
NPostCancelled ==
    /\ pc = "n_post"
    /\ InterruptedDuringNormalization
    /\ observed' = Observe("post_normalize")
    /\ Emit(Signal("cancelled", "annullata.", None))
    /\ pc' = "n_cleanup"
    /\ UNCHANGED <<scanVars, diskVars, WorkerFrame, lufs_meter_rate, locVars>>

\* if os.path.exists(self.destination_path): os.remove(self.destination_path)
NCleanupRemoved ==
    /\ pc = "n_cleanup"
    /\ dest # "absent"
    /\ dest' = "absent"
    /\ pc' = "done"
    /\ UNCHANGED <<scanVars, srcExists, WorkerFrame, lufs_meter_rate, sigVars, locVars,
                   observed>>

\* except OSError: only a warning is logged, the file stays
NCleanupFailed ==
    /\ pc = "n_cleanup"
    /\ dest # "absent"
    /\ pc' = "done"
    /\ UNCHANGED <<scanVars, diskVars, WorkerFrame, lufs_meter_rate, sigVars, locVars,
                   observed>>

\* no file at destination_path: nothing to clean
NCleanupNothing ==
    /\ pc = "n_cleanup"
    /\ dest = "absent"
    /\ pc' = "done"
    /\ UNCHANGED <<scanVars, diskVars, WorkerFrame, lufs_meter_rate, sigVars, locVars,
                   observed>>

\* Mutant of StoreResult: the output path is not stored.
StoreResultWithoutPath(r, rt) ==
    [r EXCEPT !.success = rt.ok, !.message = rt.msg, !.measured_lufs = rt.lufs]

\* norm_result.success / message / measured_lufs = the returned tuple
StoreResult(r, rt) ==
    [r EXCEPT !.success = rt.ok, !.message = rt.msg, !.measured_lufs = rt.lufs,
              !.output_path = IF rt.ok THEN Some("destination_path") ELSE None]

\* Mutant of NPostFailed: the failure branch returns without emitting error.
NPostFailedSilently ==
    /\ pc = "n_post"
    /\ ~InterruptionRequested
    /\ ~ret[1].ok
    /\ observed' = Observe("post_normalize")
    /\ norm_result' = Some(StoreResult(norm_result[1], ret[1]))
    /\ pc' = "done"
    /\ UNCHANGED <<scanVars, diskVars, WorkerFrame, lufs_meter_rate, sigVars,
                   audio, bufVars, measured_lufs, did_clip, ret>>

\* normalization failed: self.signals.error.emit(f"Errore ...: {norm_message}")
NPostFailed ==
    /\ pc = "n_post"
    /\ ~InterruptedDuringNormalization
    /\ ~ret[1].ok
    /\ observed' = Observe("post_normalize")
    /\ norm_result' = Some(StoreResult(norm_result[1], ret[1]))
    /\ Emit(Signal("error", ret[1].msg, None))
    /\ pc' = "done"
    /\ UNCHANGED <<scanVars, diskVars, WorkerFrame, lufs_meter_rate, audio, bufVars,
                   measured_lufs, did_clip, ret>>

\* Mutant of ShouldDeleteOriginal: only the success of the normalization is tested.
ShouldDeleteOnSuccess(w, norm_success) == norm_success

\* if not self.is_preview and self.delete_original and norm_success
ShouldDeleteOriginal(w, norm_success) ==
    ~w.is_preview /\ w.delete_original /\ norm_success

\* normalization succeeded: store the result and go on
NPostSucceeded ==
    /\ pc = "n_post"
    /\ ~InterruptedDuringNormalization
    /\ ret[1].ok
    /\ observed' = Observe("post_normalize")
    /\ norm_result' = Some(StoreResult(norm_result[1], ret[1]))
    /\ pc' = IF ShouldDeleteOriginal(W, ret[1].ok) THEN "n_del_progress"
                                                    ELSE "n_final"
    /\ UNCHANGED <<scanVars, diskVars, WorkerFrame, lufs_meter_rate, sigVars, audio, bufVars,
                   measured_lufs, did_clip, ret>>

\* self.signals.progress.emit(f"Eliminazione originale '...'...")
NDeleteProgress ==
    /\ pc = "n_del_progress"
    /\ Emit(Signal("progress", "Eliminazione originale", None))
    /\ pc' = "n_delete"
    /\ UNCHANGED <<scanVars, diskVars, WorkerFrame, lufs_meter_rate, locVars, observed>>

\* an unexpected exception raised inside run's try block after a successful
\* normalization (except Exception as e)
NDeleteFault ==
    /\ pc = "n_del_progress"
    /\ pc' = "n_except"
    /\ UNCHANGED <<scanVars, diskVars, WorkerFrame, lufs_meter_rate, sigVars, locVars,
                   observed>>

\* move_or_delete_original(source_path, destination_folder=None):
\* os.remove(source_full_path) succeeds
NDeleteOriginal ==
    /\ pc = "n_delete"
    /\ srcExists
    /\ srcExists' = FALSE
    /\ norm_result' = Some([norm_result[1] EXCEPT !.delete_success = Some(TRUE)])
    /\ pc' = "n_final"
    /\ UNCHANGED <<scanVars, dest, WorkerFrame, lufs_meter_rate, sigVars, audio, bufVars,
                   measured_lufs, did_clip, ret, observed>>

\* Mutant of NDeleteOriginalFailed: a failed deletion fails the whole result.
NDeleteOriginalFailedFailsResult ==
    /\ pc = "n_delete"
    /\ srcExists
    /\ norm_result' = Some([norm_result[1] EXCEPT
                              !.success = FALSE,
                              !.delete_success = Some(FALSE),
                              !.message = "Normalizzato (ATTENZIONE: eliminazione fallita)"])
    /\ pc' = "n_final"
    /\ UNCHANGED <<scanVars, diskVars, WorkerFrame, lufs_meter_rate, sigVars, audio, bufVars,
                   measured_lufs, did_clip, ret, observed>>

\* os.remove raises OSError: delete_success = False, the message gets the
\* warning appended, the overall success stays True
NDeleteOriginalFailed ==
    /\ pc = "n_delete"
    /\ srcExists
    /\ norm_result' = Some([norm_result[1] EXCEPT
                              !.delete_success = Some(FALSE),
                              !.message = "Normalizzato (ATTENZIONE: eliminazione fallita)"])
    /\ pc' = "n_final"
    /\ UNCHANGED <<scanVars, diskVars, WorkerFrame, lufs_meter_rate, sigVars, audio, bufVars,
                   measured_lufs, did_clip, ret, observed>>

\* --- 3. Emit Final Result ---: cancelled if the flag is set, else finished
NFinalCancelled ==
    /\ pc = "n_final"
    /\ InterruptionRequested
    /\ observed' = Observe("final")
    /\ Emit(Signal("cancelled", "annullata (finale).", None))
    /\ pc' = "done"
    /\ UNCHANGED <<scanVars, diskVars, WorkerFrame, lufs_meter_rate, locVars>>

NFinalFinished ==
    /\ pc = "n_final"
    /\ ~InterruptionRequested
    /\ observed' = Observe("final")
    /\ Emit(Signal("finished", norm_result[1].message, norm_result))
    /\ pc' = "done"
    /\ UNCHANGED <<scanVars, diskVars, WorkerFrame, lufs_meter_rate, locVars>>

\* Mutant of NExceptCancelled: cancelled is emitted whatever the flag says.
NExceptCancelledAlways ==
    /\ pc = "n_except"
    /\ observed' = Observe("except")
    /\ Emit(Signal("cancelled", "annullata (durante errore).", None))
    /\ pc' = "done"
    /\ UNCHANGED <<scanVars, diskVars, WorkerFrame, lufs_meter_rate, locVars>>

\* except Exception as e: cancelled if the flag is set, else error
NExceptCancelled ==
    /\ pc = "n_except"
    /\ InterruptionRequested
    /\ observed' = Observe("except")
    /\ Emit(Signal("cancelled", "annullata (durante errore).", None))
    /\ pc' = "done"
    /\ UNCHANGED <<scanVars, diskVars, WorkerFrame, lufs_meter_rate, locVars>>

\* else: self.signals.error.emit(f"Errore {action_verb.lower()}: {error_msg}")
NExceptError ==
    /\ pc = "n_except"
    /\ ~InterruptionRequested
    /\ observed' = Observe("except")
    /\ \E e \in ExceptionTexts : Emit(Signal("error", error_msg(e), None))
    /\ pc' = "done"
    /\ UNCHANGED <<scanVars, diskVars, WorkerFrame, lufs_meter_rate, locVars>>

NormalizeStep ==
    \/ NStart \/ NStartFault
    \/ NasSourceMissing \/ NasSourceFound \/ NasCheckpoint1
    \/ NasRead \/ NasReadFailed \/ NasReadEmpty
    \/ NasRate \/ NasRateFailed \/ NasMeasure \/ NasMeasureFailed
    \/ NasCheckpoint2 \/ NasGain \/ NasGainFailed \/ NasCheckpoint3
    \/ NasWrite \/ NasWriteFailed \/ NasWriteSilent \/ NasWriteSilentFailed
    \/ NPostCancelled \/ NCleanupRemoved \/ NCleanupFailed \/ NCleanupNothing
    \/ NPostFailed \/ NPostSucceeded
    \/ NDeleteProgress \/ NDeleteFault \/ NDeleteOriginal
    \/ NDeleteOriginalFailed
    \/ NFinalCancelled \/ NFinalFinished \/ NExceptCancelled \/ NExceptError

\* ------------------------------------------------ FileScannerWorker.run
ScanFrame == <<diskVars, WorkerFrame, lufs_meter_rate, locVars>>

\* the tuple load_music_files returns
ScanRet(list, status) == [list |-> list, status |-> status]

\* self.signals.progress.emit(f"Scansione '...'...")
SStart ==
    /\ pc = "s_start"
    /\ Emit(Signal("progress", "Scansione", None))
    /\ pc' = "lmf_entry"
    /\ UNCHANGED <<ScanFrame, scanVars, observed>>

\* an unexpected exception raised inside run's try block (except Exception as e)
SStartFault ==
    /\ pc = "s_start"
    /\ pc' = "s_except"
    /\ UNCHANGED <<ScanFrame, scanVars, sigVars, observed>>

\* --------------------------------------- FileManager.load_music_files
\* if not os.path.isdir(directory): return [], "Cartella input non trovata ..."
LmfNotADirectory ==
    /\ pc = "lmf_entry"
    /\ directory = None
    /\ scan_ret' = Some(ScanRet(<<>>, "Cartella input non trovata o non e' una directory"))
    /\ pc' = "s_post"
    /\ UNCHANGED <<ScanFrame, sigVars, observed, directory, dirIdx, fileIdx,
                   music_files_data, processed_after_request>>

\* music_files_data = []
LmfEnter ==
    /\ pc = "lmf_entry"
    /\ directory # None
    /\ music_files_data' = <<>>
    /\ pc' = "lmf_cp0"
    /\ UNCHANGED <<ScanFrame, sigVars, observed, directory, dirIdx, fileIdx,
                   processed_after_request, scan_ret>>

\* Mutant of ScanInterrupted: the files collected so far are returned.
ScanInterruptedPartial ==
    ScanRet(music_files_data, "Scansione interrotta dall'utente.")

\* return [], "Scansione interrotta dall'utente."
ScanInterrupted == ScanRet(<<>>, "Scansione interrotta dall'utente.")

\* the check before the walk
LmfCheckpoint0 ==
    /\ pc = "lmf_cp0"
    /\ observed' = Observe("pre_walk")
    /\ IF InterruptionRequested
          THEN scan_ret' = Some(ScanInterrupted) /\ pc' = "s_post"
          ELSE /\ scan_ret' = scan_ret
               /\ pc' = IF W.recursive THEN "lmf_walk" ELSE "lmf_listdir"
    /\ dirIdx' = 1
    /\ fileIdx' = 1
    /\ UNCHANGED <<ScanFrame, sigVars, directory, music_files_data, processed_after_request>>

\* if filename.lower().endswith('.mp3') and not filename.startswith('._')
\*    and os.path.isfile(full_path) and os.access(full_path, os.R_OK)
Matches(e) == e.mp3 /\ e.readable

\* _process_file: duration_ms = 0, replaced by int(length * 1000) when
\* mutagen extracts a length; every failure of the extraction is caught, and
\* MusicFileData(full_path, filename, duration_ms=duration_ms) is returned.
MusicFileData(e) ==
    [filename |-> e.filename, key |-> e.key,
     duration_ms |-> IF e.length # None THEN e.length[1] ELSE 0]

\* Mutant of ProcessEntry: a file whose duration was not extracted is dropped.
ProcessEntryDropsFailed(data, e) ==
    IF Matches(e) /\ e.length # None THEN Append(data, MusicFileData(e)) ELSE data

\* the loop body for one directory entry
ProcessEntry(data, e) ==
    IF Matches(e) THEN Append(data, MusicFileData(e)) ELSE data

\* os.listdir(directory) raises OSError:
\* return [], "Errore OS durante scansione cartella ..."
LmfListdirFailed ==
    /\ pc = "lmf_listdir"
    /\ scan_ret' = Some(ScanRet(<<>>, "Errore OS durante scansione cartella"))
    /\ pc' = "s_post"
    /\ UNCHANGED <<ScanFrame, sigVars, observed, directory, dirIdx, fileIdx,
                   music_files_data, processed_after_request>>

\* for filename in os.listdir(directory):
LmfListdir ==
    /\ pc = "lmf_listdir"
    /\ pc' = "lmf_file"
    /\ UNCHANGED <<ScanFrame, sigVars, observed, scanVars>>

\* non-recursive loop, one entry: the flag is checked, then the entry is processed
LmfFile ==
    /\ pc = "lmf_file"
    /\ fileIdx <= Len(directory[1][1])
    /\ observed' = Observe("file_loop")
    /\ IF InterruptionRequested
          THEN /\ scan_ret' = Some(ScanInterrupted)
               /\ pc' = "s_post"
               /\ UNCHANGED <<fileIdx, music_files_data, processed_after_request>>
          ELSE /\ music_files_data' =
                     ProcessEntry(music_files_data, directory[1][1][fileIdx])
               /\ processed_after_request' = processed_after_request
               /\ fileIdx' = fileIdx + 1
               /\ UNCHANGED <<scan_ret, pc>>
    /\ UNCHANGED <<ScanFrame, sigVars, directory, dirIdx>>

\* the listing is exhausted
LmfFileLoopEnd ==
    /\ pc = "lmf_file"
    /\ fileIdx > Len(directory[1][1])
    /\ pc' = "lmf_end"
    /\ UNCHANGED <<ScanFrame, sigVars, observed, scanVars>>

\* for root, _, files in os.walk(directory): the flag is checked per directory
LmfWalkDir ==
    /\ pc = "lmf_walk"
    /\ dirIdx <= Len(directory[1])
    /\ observed' = Observe("walk_dir")
    /\ IF InterruptionRequested
          THEN scan_ret' = Some(ScanInterrupted) /\ pc' = "s_post"
          ELSE scan_ret' = scan_ret /\ pc' = "lmf_walk_file"
    /\ fileIdx' = 1
    /\ UNCHANGED <<ScanFrame, sigVars, directory, dirIdx, music_files_data, processed_after_request>>

\* the walk is exhausted
LmfWalkEnd ==
    /\ pc = "lmf_walk"
    /\ dirIdx > Len(directory[1])
    /\ pc' = "lmf_end"
    /\ UNCHANGED <<ScanFrame, sigVars, observed, scanVars>>

\* for filename in files: one entry is processed (no flag check here)
LmfWalkFile ==
    /\ pc = "lmf_walk_file"
    /\ fileIdx <= Len(directory[1][dirIdx])
    /\ music_files_data' =
           ProcessEntry(music_files_data, directory[1][dirIdx][fileIdx])
    /\ processed_after_request' =
           IF InterruptionRequested /\ Matches(directory[1][dirIdx][fileIdx])
              THEN processed_after_request + 1
              ELSE processed_after_request
    /\ fileIdx' = fileIdx + 1
    /\ UNCHANGED <<ScanFrame, sigVars, observed, directory, dirIdx, scan_ret, pc>>

\* the directory's files are exhausted: next directory of the walk
LmfWalkFilesEnd ==
    /\ pc = "lmf_walk_file"
    /\ fileIdx > Len(directory[1][dirIdx])
    /\ dirIdx' = dirIdx + 1
    /\ pc' = "lmf_walk"
    /\ UNCHANGED <<ScanFrame, sigVars, observed, directory, fileIdx,
                   music_files_data, processed_after_request, scan_ret>>

\* Mutant of InsertSorted: the item is appended, the list is left in the
\* order the files were found in.
InsertUnsorted(x, sorted) == Append(sorted, x)

\* list.sort(key=lambda x: x.filename.lower()): a stable insertion
InsertSorted(x, sorted) ==
    LET before == SelectSeq(sorted, LAMBDA y : y.key <= x.key)
        after  == SelectSeq(sorted, LAMBDA y : y.key > x.key)
    IN  before \o <<x>> \o after

RECURSIVE SortByFilename(_)
SortByFilename(data) ==
    IF data = <<>> THEN <<>>
    ELSE InsertSorted(data[Len(data)],
                      SortByFilename(SubSeq(data, 1, Len(data) - 1)))

\* if not music_files_data: return [], "Nessun file MP3 valido trovato."
\* music_files_data.sort(...); return music_files_data, f"Caricati {n} MP3."
LmfEnd ==
    /\ pc = "lmf_end"
    /\ scan_ret' =
          IF music_files_data = <<>>
             THEN Some(ScanRet(<<>>, "Nessun file MP3 valido trovato."))
             ELSE Some(ScanRet(SortByFilename(music_files_data), "Caricati N MP3."))
    /\ pc' = "s_post"
    /\ UNCHANGED <<ScanFrame, sigVars, observed, directory, dirIdx, fileIdx,
                   music_files_data, processed_after_request>>

\* ------------------------------ FileScannerWorker.run, after the call
\* "errore" in status_msg.lower() or "trovato" in ... or "validi" in ...
StatusNamesFailure(status) ==
    status \in {"Nessun file MP3 valido trovato.",
                "Errore OS durante scansione cartella"}

\* if not music_data_list and "interrotta" not in status_msg
ScanEmitsError(r) ==
    /\ StatusNamesFailure(r.status)
    /\ r.list = <<>>
    /\ r.status # "Scansione interrotta dall'utente."

\* if thread.isInterruptionRequested(): self.signals.cancelled.emit(...)
SPostCancelled ==
    /\ pc = "s_post"
    /\ InterruptionRequested
    /\ observed' = Observe("post_scan")
    /\ Emit(Signal("cancelled", "Scansione annullata.", None))
    /\ pc' = "done"
    /\ UNCHANGED <<ScanFrame, scanVars>>

\* self.signals.error.emit(status_msg)
SPostError ==
    /\ pc = "s_post"
    /\ ~InterruptionRequested
    /\ ScanEmitsError(scan_ret[1])
    /\ observed' = Observe("post_scan")
    /\ Emit(Signal("error", scan_ret[1].status, None))
    /\ pc' = "done"
    /\ UNCHANGED <<ScanFrame, scanVars>>

\* self.signals.finished.emit(music_data_list)
SPostFinished ==
    /\ pc = "s_post"
    /\ ~InterruptionRequested
    /\ ~ScanEmitsError(scan_ret[1])
    /\ observed' = Observe("post_scan")
    /\ Emit(Signal("finished", scan_ret[1].status, Some(scan_ret[1].list)))
    /\ pc' = "done"
    /\ UNCHANGED <<ScanFrame, scanVars>>

\* except Exception as e: cancelled if the flag is set, else error
SExceptCancelled ==
    /\ pc = "s_except"
    /\ InterruptionRequested
    /\ observed' = Observe("except")
    /\ Emit(Signal("cancelled", "Scansione annullata (durante errore).", None))
    /\ pc' = "done"
    /\ UNCHANGED <<ScanFrame, scanVars>>

\* else: self.signals.error.emit(error_msg)
SExceptError ==
    /\ pc = "s_except"
    /\ ~InterruptionRequested
    /\ observed' = Observe("except")
    /\ \E e \in ExceptionTexts : Emit(Signal("error", error_msg(e), None))
    /\ pc' = "done"
    /\ UNCHANGED <<ScanFrame, scanVars>>

ScanStep ==
    \/ SStart \/ SStartFault
    \/ LmfNotADirectory \/ LmfEnter \/ LmfCheckpoint0
    \/ LmfListdirFailed \/ LmfListdir \/ LmfFile \/ LmfFileLoopEnd
    \/ LmfWalkDir \/ LmfWalkEnd \/ LmfWalkFile \/ LmfWalkFilesEnd
    \/ LmfEnd
    \/ SPostCancelled \/ SPostError \/ SPostFinished
    \/ SExceptCancelled \/ SExceptError

WorkerStep == NormalizeStep \/ ScanStep

ScanWorkers == {ScanWorker(r) : r \in BOOLEAN}

Workers == NormWorkers \cup ScanWorkers

\* ------------------------------------------------------------------ Next
Next ==
    \/ \E w \in Workers : StartWorkerAccepted(w)
    \/ StartWorkerBusy
    \/ RequestWorkerStop
    \/ RequestWorkerStopIdle
    \/ Deliver
    \/ CloseEventStop
    \/ CloseEventAccept
    \/ WorkerStep

\* _on_thread_finished: the slot of QThread.finished. It clears
\* worker_object and active_worker_thread, resets the busy state and, in
\* _update_button_states, unchecks the preview button (no preview playing).
\* QThread.finished is emitted when the thread's event loop exits; the source
\* connects nothing to thread.quit and never calls quit() or exit(), so after
\* worker.run returns the thread stays in its event loop: no step of Next
\* takes a thread out of `running`, and Next has no step for this slot.
OnThreadFinished(t) ==
    /\ t \notin running
    /\ t = active_worker_thread
    /\ worker_object' = None
    /\ active_worker_thread' = NoThread
    /\ busy' = FALSE
    /\ preview_button_checked' = FALSE
    /\ UNCHANGED <<current_preview_temp_path, original_file_for_preview>>
    /\ UNCHANGED <<moveVars, finished_branch, window, scanVars, diskVars, threads, running, interruption,
                   connections, submits, lastStart, stops, lufs_meter_rate,
                   sigVars, pc, locVars, observed>>

Spec == Init /\ [][Next]_vars

\* The background thread is scheduled fairly, and the controller's event
\* loop keeps processing posted slot calls.
FairSpec == Spec /\ WF_vars(WorkerStep) /\ WF_vars(Deliver)

\* ------------------------------- FileManager.move_or_delete_original
\* The function called on its own, on every source, destination folder and
\* target it can meet.
mainVars == <<diskVars, ctlVars, interruption, lufs_meter_rate, sigVars, pc,
              locVars, observed, scanVars>>

\* destination_folder arguments: None, the empty string, a directory, a
\* path that is not a directory
MoveFolders ==
    {None, Some([name |-> "", isdir |-> FALSE]),
     Some([name |-> "dest", isdir |-> TRUE]),
     Some([name |-> "nodir", isdir |-> FALSE])}

\* an exception: whether it is an OSError, its errno, and whether str(e).lower()
\* contains 'cross-device' or 'different filesystem'
Exc(oserror, errno, cross_device, different_filesystem) ==
    [oserror |-> oserror, errno |-> errno, cross_device |-> cross_device,
     different_filesystem |-> different_filesystem]

\* exceptions os.rename raises
RenameErrors ==
    {Exc(TRUE, 18, TRUE, FALSE),     \* EXDEV "Invalid cross-device link"
     Exc(TRUE, 18, FALSE, FALSE),    \* EXDEV with another message
     Exc(TRUE, 17, FALSE, TRUE),     \* "... different filesystem"
     Exc(TRUE, 1, TRUE, FALSE),      \* another errno, "cross-device" in the text
     Exc(TRUE, 13, FALSE, FALSE),    \* EACCES "Permission denied"
     Exc(TRUE, 2, FALSE, FALSE),     \* ENOENT
     Exc(FALSE, 0, TRUE, FALSE)}     \* not an OSError

MoveInit ==
    /\ MainInit
    /\ directory = None /\ srcExists /\ dest = "absent"
    /\ mv_pc = "entry"
    /\ mv_source \in {"original", "directory", "absent"}
    /\ mv_folder \in MoveFolders
    /\ mv_target \in {"absent", "other", "directory"}
    /\ mv_error = None
    /\ mv_cleanup = "none"
    /\ mv_ret = None

\* the tuple move_or_delete_original returns
MoveRet(ok, msg) == [ok |-> ok, msg |-> msg]

\* return ..., msg
MvReturn(ok, msg) ==
    /\ mv_ret' = Some(MoveRet(ok, msg))
    /\ mv_pc' = "returned"

\* if destination_folder:
MoveMode == mv_folder # None /\ mv_folder[1].name # ""

\* if not os.path.isfile(source_full_path): return False, "Sorgente non trovato ..."
MvSourceNotAFile ==
    /\ mv_pc = "entry"
    /\ mv_source # "original"
    /\ MvReturn(FALSE, "Sorgente non trovato per spostamento/elim.")
    /\ UNCHANGED <<mainVars, mv_cleanup, mv_source, mv_folder, mv_target, mv_error>>

\* if not os.path.isdir(destination_folder): return False, "Destinazione ... non valida"
MvFolderInvalid ==
    /\ mv_pc = "entry"
    /\ mv_source = "original"
    /\ MoveMode
    /\ ~mv_folder[1].isdir
    /\ MvReturn(FALSE, "Destinazione per spostamento originale non valida")
    /\ UNCHANGED <<mainVars, mv_cleanup, mv_source, mv_folder, mv_target, mv_error>>

\* Mutant of MvTargetExists: the existing target is overwritten by the move.
MvTargetExistsOverwrites ==
    /\ mv_pc = "entry"
    /\ mv_source = "original"
    /\ mv_folder # None /\ mv_folder[1].name # ""
    /\ mv_folder[1].isdir
    /\ mv_target # "absent"
    /\ mv_source' = "absent"
    /\ mv_target' = "original"
    /\ MvReturn(FALSE, "Spostamento orig. saltato: esiste gia' in destinazione.")
    /\ UNCHANGED <<mainVars, mv_cleanup, mv_folder, mv_error>>

\* if os.path.exists(destination_full_path): return False, "Spostamento orig. saltato ..."
MvTargetExists ==
    /\ mv_pc = "entry"
    /\ mv_source = "original"
    /\ MoveMode
    /\ mv_folder[1].isdir
    /\ mv_target # "absent"
    /\ MvReturn(FALSE, "Spostamento orig. saltato: esiste gia' in destinazione.")
    /\ UNCHANGED <<mainVars, mv_cleanup, mv_source, mv_folder, mv_target, mv_error>>

\* the checks passed: os.rename is attempted
MvChecksPassed ==
    /\ mv_pc = "entry"
    /\ mv_source = "original"
    /\ MoveMode
    /\ mv_folder[1].isdir
    /\ mv_target = "absent"
    /\ mv_pc' = "rename"
    /\ UNCHANGED <<mainVars, mv_cleanup, mv_source, mv_folder, mv_target, mv_error, mv_ret>>

\* os.rename(source_full_path, destination_full_path) succeeds
MvRename ==
    /\ mv_pc = "rename"
    /\ mv_source' = "absent"
    /\ mv_target' = "original"
    /\ MvReturn(TRUE, "Spostato (originale)")
    /\ UNCHANGED <<mainVars, mv_cleanup, mv_folder, mv_error>>

\* e.errno == 18 or 'cross-device' in str(e).lower()
\*    or 'different filesystem' in str(e).lower()
CrossDevice(e) == e.errno = 18 \/ e.cross_device \/ e.different_filesystem

\* os.rename raises: the cross-device errors go on to the fallback, the
\* other OSErrors and the other exceptions return a failure
MvRenameFailed ==
    /\ mv_pc = "rename"
    /\ \E e \in RenameErrors :
          /\ mv_error' = Some(e)
          /\ IF e.oserror /\ CrossDevice(e)
                THEN mv_pc' = "copy" /\ mv_ret' = mv_ret
                ELSE MvReturn(FALSE, IF e.oserror
                                        THEN "Errore OS durante spostamento (rename)"
                                        ELSE "Errore imprevisto spostamento originale")
    /\ UNCHANGED <<mainVars, mv_cleanup, mv_source, mv_folder, mv_target>>

\* shutil.copy2(source_full_path, destination_full_path) succeeds
MvCopy ==
    /\ mv_pc = "copy"
    /\ mv_target' = "copy"
    /\ mv_pc' = "remove_source"
    /\ UNCHANGED <<mainVars, mv_cleanup, mv_source, mv_folder, mv_error, mv_ret>>

\* Mutant of MvCopyFailed: the source was removed before the copy was made.
MvCopyFailedSourceGone ==
    /\ mv_pc = "copy"
    /\ mv_target' \in {"absent", "partial"}
    /\ mv_source' = "absent"
    /\ mv_pc' = "cleanup"
    /\ UNCHANGED <<mainVars, mv_cleanup, mv_folder, mv_error, mv_ret>>

\* shutil.copy2 raises, having created nothing or part of the target
MvCopyFailed ==
    /\ mv_pc = "copy"
    /\ mv_target' \in {"absent", "partial"}
    /\ mv_pc' = "cleanup"
    /\ UNCHANGED <<mainVars, mv_cleanup, mv_source, mv_folder, mv_error, mv_ret>>

\* os.remove(source_full_path) succeeds after the copy
MvRemoveSource ==
    /\ mv_pc = "remove_source"
    /\ mv_source' = "absent"
    /\ MvReturn(TRUE, "Spostato (originale, copia+elimina)")
    /\ UNCHANGED <<mainVars, mv_cleanup, mv_folder, mv_target, mv_error>>

\* os.remove(source_full_path) raises after the copy
MvRemoveSourceFailed ==
    /\ mv_pc = "remove_source"
    /\ mv_pc' = "cleanup"
    /\ UNCHANGED <<mainVars, mv_cleanup, mv_source, mv_folder, mv_target, mv_error, mv_ret>>

\* Mutant of MvCleanupRemoved: the copied target is left in place.
MvCleanupSkipped ==
    /\ mv_pc = "cleanup"
    /\ mv_target # "absent"
    /\ MvReturn(FALSE, "Fallback copia+elimina per originale fallito")
    /\ UNCHANGED <<mainVars, mv_cleanup, mv_source, mv_folder, mv_target, mv_error>>

\* if os.path.exists(destination_full_path): os.remove(destination_full_path)
MvCleanupRemoved ==
    /\ mv_pc = "cleanup"
    /\ mv_target # "absent"
    /\ mv_target' = "absent"
    /\ mv_cleanup' = "removed"
    /\ MvReturn(FALSE, "Fallback copia+elimina per originale fallito")
    /\ UNCHANGED <<mainVars, mv_source, mv_folder, mv_error>>

\* except OSError as rm_err: the removal of the copied target fails, an
\* error is logged
MvCleanupFailed ==
    /\ mv_pc = "cleanup"
    /\ mv_target # "absent"
    /\ mv_cleanup' = "failed"
    /\ MvReturn(FALSE, "Fallback copia+elimina per originale fallito")
    /\ UNCHANGED <<mainVars, mv_source, mv_folder, mv_target, mv_error>>

\* nothing at destination_full_path: nothing to clean
MvCleanupNothing ==
    /\ mv_pc = "cleanup"
    /\ mv_target = "absent"
    /\ MvReturn(FALSE, "Fallback copia+elimina per originale fallito")
    /\ UNCHANGED <<mainVars, mv_cleanup, mv_source, mv_folder, mv_target, mv_error>>

\* delete mode: os.remove(source_full_path) succeeds
MvDelete ==
    /\ mv_pc = "entry"
    /\ mv_source = "original"
    /\ ~MoveMode
    /\ mv_source' = "absent"
    /\ MvReturn(TRUE, "Originale eliminato")
    /\ UNCHANGED <<mainVars, mv_cleanup, mv_folder, mv_target, mv_error>>

\* delete mode: os.remove raises
MvDeleteFailed ==
    /\ mv_pc = "entry"
    /\ mv_source = "original"
    /\ ~MoveMode
    /\ \E msg \in {"Errore OS eliminazione originale",
                    "Errore imprevisto eliminazione originale"} :
          MvReturn(FALSE, msg)
    /\ UNCHANGED <<mainVars, mv_cleanup, mv_source, mv_folder, mv_target, mv_error>>

MoveNext ==
    \/ MvSourceNotAFile \/ MvFolderInvalid \/ MvTargetExists \/ MvChecksPassed
    \/ MvRename \/ MvRenameFailed
    \/ MvCopy \/ MvCopyFailed \/ MvRemoveSource \/ MvRemoveSourceFailed
    \/ MvCleanupRemoved \/ MvCleanupFailed \/ MvCleanupNothing
    \/ MvDelete \/ MvDeleteFailed

MoveSpec == MoveInit /\ [][MoveNext]_vars

\* ================================================================ claims
Last(seq) == seq[Len(seq)]

TerminalsOf(seq) == {i \in 1..Len(seq) : IsTerminal(seq[i])}

EndsWith(seq, sig) == seq # <<>> /\ Last(seq).sig = sig

\* the destination holds a file the task wrote (whole or partial)
TaskOutputOnDisk == dest \in {"partial", "written"}

\* the checkpoints inside normalize_and_save and inside load_music_files
NormalizeCheckpoints == {"pre_read", "post_measure", "pre_write"}
ScanCheckpoints == {"pre_walk", "file_loop", "walk_dir"}

\* C1: single-flight. In every reachable state at most one QThread started by
\* start_worker is running, and it is the one active_worker_thread names.
C1_SingleFlight ==
    /\ Cardinality(running) <= 1
    /\ running \subseteq {active_worker_thread}

\* C1 witness: a task is running and a second submit has been made and refused.
C1_Witness ==
    /\ Cardinality(running) = 1
    /\ submits >= 2
    /\ ~lastStart
    /\ pc \notin {"idle", "done"}

\* C2: every run emits exactly one terminal signal, as its last signal: no
\* signal (progress or terminal) follows a terminal one, and a run that has
\* returned has emitted its terminal signal.
C2_ExactlyOneTerminal ==
    /\ \A i \in TerminalsOf(emitted) : i = Len(emitted)
    /\ pc = "done" => Cardinality(TerminalsOf(emitted)) = 1

\* C2 witness: a move task has returned after the delete-original path: two
\* progress signals, then finished.
C2_Witness ==
    /\ pc = "done"
    /\ Len(emitted) = 3
    /\ emitted[1].sig = "progress" /\ emitted[2].sig = "progress"
    /\ emitted[3].sig = "finished"
    /\ emitted[3].res[1].delete_success = Some(TRUE)

\* C3: the controller receives a task's signals in emission order (what it has
\* received, followed by what is still queued, is what was emitted), and a
\* terminal signal is the last one it receives.
C3_OrderedDelivery ==
    /\ delivered \o queue = emitted
    /\ \A i \in TerminalsOf(delivered) : i = Len(delivered)

\* C3 witness: two progress signals and the terminal signal have been
\* delivered, the second progress having waited in the queue with the first.
C3_Witness ==
    /\ Len(delivered) = 3
    /\ delivered[1].sig = "progress" /\ delivered[2].sig = "progress"
    /\ IsTerminal(delivered[3])

\* C4 (as claimed): after a task's run has returned, the orchestrator
\* eventually is Idle again: no active thread, no worker object, not busy.
C4_ReturnsToIdle ==
    (pc = "done") ~>
        (active_worker_thread = NoThread /\ worker_object = None /\ ~busy)

\* C5: once a checkpoint of normalize_and_save or of load_music_files has found
\* the interruption flag set, the task emits neither finished nor error, and
\* when its run has returned it has emitted cancelled exactly once.
C5_ObservedCancelIsCancelled ==
    observed \cap (NormalizeCheckpoints \cup ScanCheckpoints) # {} =>
        /\ \A i \in 1..Len(emitted) : emitted[i].sig \notin {"finished", "error"}
        /\ pc = "done" =>
              Cardinality({i \in 1..Len(emitted) : emitted[i].sig = "cancelled"}) = 1

\* C5 witness: the post-measurement checkpoint found the flag set, the engine
\* returned a failure result, and the run has returned.
C5_Witness ==
    /\ "post_measure" \in observed
    /\ ret # None /\ ~ret[1].ok
    /\ pc = "done"

\* C6: when one of the three checkpoints of normalize_and_save found the flag
\* set, the run ends with cancelled, and once it has returned the destination
\* holds no file written by the task.
C6_CheckpointCancelCleanup ==
    (observed \cap NormalizeCheckpoints # {} /\ pc = "done") =>
        (EndsWith(emitted, "cancelled") /\ ~TaskOutputOnDisk)

\* C6 witness: the pre-write checkpoint (after reading and measuring) found
\* the flag set and the run has returned.
C6_Witness ==
    /\ "pre_write" \in observed
    /\ audio # None /\ measured_lufs # None
    /\ pc = "done"

\* C7 (as claimed, for a request that arrives while or after the original is
\* being deleted): when a normalize-and-move task ends with cancelled, the
\* original still exists and no output of the task is at the destination.
C7_CancelledLeavesNothing ==
    (worker_object = Some(MoveWorker) /\ pc = "done"
        /\ norm_result[1].delete_success # None
        /\ EndsWith(emitted, "cancelled")) =>
        (srcExists /\ ~TaskOutputOnDisk)

\* C8 (as claimed): whenever the last signal a normalize task emitted is error
\* or cancelled, no file the task wrote is at the destination.
C8_RollbackBeforeTerminal ==
    (worker_object # None /\ worker_object[1].cls = "norm"
        /\ (EndsWith(emitted, "error") \/ EndsWith(emitted, "cancelled"))) =>
        ~TaskOutputOnDisk

\* C9: the original is removed only by a move task, after normalize_and_save
\* returned success into that task (its output is on disk), and not when the
\* check after normalization found the interruption flag set.
C9_DeleteOnlyAfterSuccess ==
    [][(srcExists /\ ~srcExists') =>
          /\ worker_object = Some(MoveWorker)
          /\ ret # None /\ ret[1].ok
          /\ dest = "written"
          /\ "post_normalize" \notin observed]_vars

\* C9 witness: a move task has removed the original it read.
C9_Witness ==
    /\ worker_object = Some(MoveWorker)
    /\ audio # None
    /\ ~srcExists
    /\ norm_result[1].delete_success = Some(TRUE)

\* C10: a start_worker call made while a thread is running returns False and
\* changes nothing but the record of the call: thread, worker object,
\* connections, threads, the worker's position and its signals stay as they are.
C10_BusySubmitChangesNothing ==
    [][(submits' = submits + 1 /\ active_worker_thread \in running) =>
          /\ lastStart' = FALSE
          /\ UNCHANGED <<moveVars, previewVars, finished_branch, active_worker_thread, worker_object, threads, running,
                         interruption, connections, busy, stops, emitted, queue,
                         delivered, pc, locVars, scanVars, diskVars,
                         lufs_meter_rate, observed>>]_vars

\* C10 witness: a submit has been refused while the first task was between
\* two of its signals.
C10_Witness ==
    /\ submits = 2
    /\ ~lastStart
    /\ Cardinality(threads) = 1
    /\ pc = "nas_read"
    /\ Len(emitted) = 1

\* C12: request_worker_stop is cooperative. A call sets the interruption flag
\* of the active thread when there is one and changes nothing else: the
\* thread keeps running, no signal is emitted or delivered, the execution
\* slot stays taken, the worker stays where it is; with no active thread the
\* call changes nothing at all. Nothing but a call sets a flag, and a thread
\* that start_worker has just created has its flag clear.
C12_StopIsCooperative ==
    [][/\ (stops' = stops + 1) =>
            /\ interruption' = IF WorkerActive
                                  THEN interruption \cup {active_worker_thread}
                                  ELSE interruption
            /\ UNCHANGED <<moveVars, previewVars, finished_branch, active_worker_thread, worker_object, threads,
                           running, connections, busy, submits, lastStart,
                           emitted, queue, delivered, pc, locVars, scanVars,
                           diskVars, lufs_meter_rate, observed>>
       /\ (interruption' # interruption) => (stops' = stops + 1)
       /\ (active_worker_thread' # active_worker_thread) =>
            (active_worker_thread' \notin interruption')]_vars

\* C12 witness: two calls have been made, the worker's thread has its flag
\* set after the first checkpoint passed, and the worker is still inside
\* normalize_and_save with its thread running and the window busy.
C12_Witness ==
    /\ stops = 2
    /\ interruption = {active_worker_thread}
    /\ active_worker_thread \in running
    /\ busy
    /\ pc = "nas_read"
    /\ "pre_read" \notin observed

\* C13: cancelled is emitted only after request_worker_stop was called for the
\* task (its thread's flag is set), and a run that returns without a request
\* has ended with finished or error.
C13_CancelIsExplicit ==
    /\ (\E i \in 1..Len(emitted) : emitted[i].sig = "cancelled") =>
          (stops >= 1 /\ active_worker_thread \in interruption)
    /\ (pc = "done" /\ active_worker_thread \notin interruption) =>
          (EndsWith(emitted, "finished") \/ EndsWith(emitted, "error"))

\* C13 witness: a run has returned with cancelled after one request.
C13_Witness ==
    /\ pc = "done"
    /\ stops = 1
    /\ EndsWith(emitted, "cancelled")

\* the messages normalize_and_save returns for a failed write of the output
WriteFailures ==
    {"Scrittura file normalizzato fallita", "Scrittura file (silenzio) fallita"}

\* C14 (as claimed): when normalize_and_save returns a failure caused by a
\* failed write, on either write path, no file written by the call (whole or
\* partial) is at destination_path.
C14_FailedWriteLeavesNoFile ==
    (pc = "n_post" /\ ret # None /\ ret[1].msg \in WriteFailures) =>
        ~TaskOutputOnDisk

\* C15: in a normalize-and-move task whose normalization succeeded and whose
\* deletion of the original failed, the run never ends with error, the
\* output file and the original are both present when it has returned, and,
\* no stop having been requested, it ends with finished carrying success=True
\* and delete_success=False.
C15_DeleteFailureStillFinished ==
    (worker_object = Some(MoveWorker) /\ pc = "done" /\ norm_result # None
        /\ norm_result[1].delete_success = Some(FALSE)) =>
        /\ ~EndsWith(emitted, "error")
        /\ dest = "written"
        /\ srcExists
        /\ (active_worker_thread \notin interruption) =>
              /\ EndsWith(emitted, "finished")
              /\ Last(emitted).res[1].success
              /\ Last(emitted).res[1].delete_success = Some(FALSE)
              /\ Last(emitted).res[1].output_path # None

\* C15 witness: such a run has returned with finished.
C15_Witness ==
    /\ worker_object = Some(MoveWorker)
    /\ pc = "done"
    /\ norm_result[1].delete_success = Some(FALSE)
    /\ EndsWith(emitted, "finished")
    /\ srcExists /\ dest = "written"

\* the entries a scan has to look at: the directory's own listing, or every
\* listing of the tree for a recursive scan
ScannedEntries(w, tree) ==
    IF w.recursive
       THEN UNION {{tree[d][f] : f \in 1..Len(tree[d])} : d \in 1..Len(tree)}
       ELSE {tree[1][f] : f \in 1..Len(tree[1])}

\* a set of list items as the sequence ordered by lower-cased file name
RECURSIVE InFilenameOrder(_)
InFilenameOrder(S) ==
    IF S = {} THEN <<>>
    ELSE LET first == CHOOSE x \in S : \A y \in S : x.key <= y.key
         IN  <<first>> \o InFilenameOrder(S \ {first})

\* the complete result of a scan of a directory
CompleteList(w, dir) ==
    IF dir = None THEN <<>>
    ELSE InFilenameOrder({[filename |-> e.filename, key |-> e.key,
                           duration_ms |-> IF e.length = None THEN 0
                                           ELSE e.length[1]] :
                             e \in {x \in ScannedEntries(w, dir[1]) :
                                       x.mp3 /\ x.readable}})

\* C16: scan results are all-or-nothing. Every finished signal a scan task
\* emits, and every one the controller receives, carries the complete ordered
\* list of the matching files of the scanned directory (tree); a scan whose
\* checkpoint found the interruption flag set returns the empty list with the
\* interrupted status, and its run ends with cancelled.
C16_ScanAllOrNothing ==
    (worker_object # None /\ worker_object[1].cls = "scan") =>
        /\ \A i \in 1..Len(emitted) : emitted[i].sig = "finished" =>
              emitted[i].res = Some(CompleteList(W, directory))
        /\ \A i \in 1..Len(delivered) : delivered[i].sig = "finished" =>
              delivered[i].res = Some(CompleteList(W, directory))
        /\ (observed \cap ScanCheckpoints # {} /\ scan_ret # None) =>
              /\ scan_ret[1].list = <<>>
              /\ scan_ret[1].status = "Scansione interrotta dall'utente."
        /\ (observed \cap ScanCheckpoints # {} /\ pc = "done") =>
              EndsWith(emitted, "cancelled")

\* C16 witness: a recursive scan of a tree with matching files in it, other
\* files and an unreadable one has delivered finished with its two matches.
C16_Witness ==
    /\ worker_object # None /\ worker_object[1] = ScanWorker(TRUE)
    /\ pc = "done"
    /\ delivered # <<>> /\ Last(delivered).sig = "finished"
    /\ Len(Last(delivered).res[1]) = 2
    /\ Len(directory[1]) = 2

\* the fallback of move mode has returned a failure
FallbackFailed ==
    /\ mv_pc = "returned"
    /\ ~mv_ret[1].ok
    /\ mv_ret[1].msg = "Fallback copia+elimina per originale fallito"

C18_ExistingTargetUntouched ==
    [][(mv_pc = "entry" /\ mv_source = "original" /\ mv_folder # None
          /\ mv_folder[1].name # "" /\ mv_folder[1].isdir
          /\ mv_target # "absent") =>
            /\ mv_pc' = "returned"
            /\ ~mv_ret'[1].ok
            /\ mv_source' = mv_source
            /\ mv_target' = mv_target]_vars

\* C18 witness: a move onto an existing file has returned its failure.
C18_Witness ==
    /\ mv_pc = "returned"
    /\ mv_folder # None /\ mv_folder[1].isdir
    /\ mv_source = "original"
    /\ mv_target = "other"
    /\ ~mv_ret[1].ok

\* C19: silence policy. A source whose measured loudness is non-finite or
\* strictly below -70 takes the copy path: no gain and no limiting are
\* computed, the buffer written is the buffer read, and the call returns
\* success with the copied message and the measured value. Every finite
\* loudness at or above -70, -70 included, takes the gain path: the buffer
\* written is the normalized one and the message is a completion message.
C19_SilencePolicy ==
    /\ (pc = "nas_write_silent") =>
          (audio[1].lufs = MinusInf \/ audio[1].lufs < SilenceThreshold)
    /\ (pc \in {"nas_gain", "nas_cp3", "nas_write"}) =>
          (audio[1].lufs # MinusInf /\ audio[1].lufs >= SilenceThreshold)
    /\ (pc = "n_post" /\ ret # None /\ ret[1].ok) =>
          IF audio[1].lufs = MinusInf \/ audio[1].lufs < SilenceThreshold
             THEN /\ written_audio = Some(audio[1].samples)
                  /\ normalized_audio = None
                  /\ ~did_clip
                  /\ ret[1].msg = "Copiato come WAV"
                  /\ ret[1].lufs = Some(audio[1].lufs)
             ELSE /\ normalized_audio # None
                  /\ written_audio = normalized_audio
                  /\ ret[1].msg \in {"Normalizzato e salvato",
                                     "Normalizzato (con peak limiting) e salvato"}
                  /\ ret[1].lufs = Some(audio[1].lufs)

\* C19 witness: a source measured at -71, finite and below the threshold,
\* has been copied unmodified.
C19_Witness ==
    /\ pc = "n_post"
    /\ ret # None /\ ret[1].ok
    /\ audio[1].lufs = SilenceThreshold - 1
    /\ written_audio = Some(audio[1].samples)

\* C20 (as claimed): for all inputs the buffer written has a maximum
\* absolute sample value of at most 1.0, and about 0.977 when the buffer
\* after gain exceeded 1.0.
C20_WrittenPeakAtMostOne ==
    written_audio # None =>
        /\ MaxAbs(written_audio[1]) <= FullScale
        /\ did_clip => MaxAbs(written_audio[1]) \in (PeakTarget - 1)..(PeakTarget + 1)

\* C20 (amended): the buffer written on the gain path has a maximum absolute
\* sample value of at most 1.0; limiting happens exactly when the peak after
\* gain exceeds 1.0, and then every sample is the sample after gain times
\* 0.977/peak (within rounding), so that the written peak is 0.977 +- 0.001.
\* On the copy path of a silent source the buffer written is the buffer
\* read, whatever its peak.
C20_GainPathPeakLimited ==
    written_audio # None =>
        IF normalized_audio = None
           THEN written_audio = Some(audio[1].samples)
           ELSE LET gain   == gain_linear(TARGET_LUFS_DEFAULT - audio[1].lufs)
                    gained == [i \in 1..Len(audio[1].samples) |->
                                 Scale(audio[1].samples[i], gain)]
                    peak   == MaxAbs(gained)
                    out    == written_audio[1]
                IN  /\ MaxAbs(out) <= FullScale
                    /\ did_clip <=> (peak > FullScale)
                    /\ did_clip =>
                         /\ MaxAbs(out) \in (PeakTarget - 1)..(PeakTarget + 1)
                         /\ \A i \in 1..Len(out) :
                               Abs(out[i] * peak - gained[i] * PeakTarget) <= 2 * peak
                    /\ ~did_clip => out = gained

\* C20 witness: a buffer whose peak after gain exceeded 1.0 has been limited
\* and written.
C20_Witness ==
    /\ written_audio # None
    /\ did_clip
    /\ PostGainPeak(audio[1].samples, TARGET_LUFS_DEFAULT - audio[1].lufs) > FullScale
    /\ MaxAbs(written_audio[1]) < FullScale

\* sum of the absolute sample values of a buffer: a level that scales
\* linearly with the buffer
RECURSIVE AbsSum(_)
AbsSum(buffer) ==
    IF buffer = <<>> THEN 0 ELSE Abs(Head(buffer)) + AbsSum(Tail(buffer))

\* The level of out is the level of inp changed by d whole decibels: the
\* ratio of the two levels lies between the midpoints of the linear factors
\* 10 ** (d / 20) of d - 1, d and d + 1, so that d is the nearest whole
\* decibel.
LevelChangeIs(out, inp, d) ==
    LET twice == 2 * AbsSum(out) * FullScale
        base  == AbsSum(inp)
    IN  /\ base > 0
        /\ twice \div base >= gain_linear(d - 1) + gain_linear(d)
        /\ (twice + base - 1) \div base <= gain_linear(d) + gain_linear(d + 1)

\* The level of out relative to inp in whole decibels.  Loudness is a level
\* in decibels, so the loudness of out is the loudness of inp plus this
\* difference.  The largest d tried is the gain of the quietest source that
\* is not silent; a change outside the range (out is all zeros, say) is
\* MinusInf.
RelativeLevelDb(out, inp) ==
    LET fits == {d \in -60..(TARGET_LUFS_DEFAULT - SilenceThreshold) :
                    LevelChangeIs(out, inp, d)}
    IN  IF fits = {} THEN MinusInf ELSE CHOOSE d \in fits : TRUE

\* the buffer written came from the gain path and was not peak limited
WrittenPlainGain ==
    /\ written_audio # None
    /\ normalized_audio # None
    /\ ~did_clip

\* C21: when the gain path writes a buffer that did not clip, the level
\* change between the buffer read and the buffer written is the target minus
\* the measured loudness in decibels (a negative change when the source is
\* louder than the target), so that the loudness of the written buffer is
\* the target.
C21_GainIsTargetMinusMeasured ==
    WrittenPlainGain =>
        LET applied == RelativeLevelDb(written_audio[1], audio[1].samples)
        IN  /\ applied = TARGET_LUFS_DEFAULT - measured_lufs[1]
            /\ measured_lufs[1] > TARGET_LUFS_DEFAULT => applied < 0
            /\ audio[1].lufs + applied = TARGET_LUFS_DEFAULT

\* C21 witness: a source louder than the target has been attenuated without
\* clipping and written.
C21_Witness ==
    /\ WrittenPlainGain
    /\ measured_lufs[1] > TARGET_LUFS_DEFAULT
    /\ MaxAbs(written_audio[1]) < MaxAbs(audio[1].samples)

\* C22: normalizing the written buffer of the gain path a second time to the
\* same target, at the loudness the first pass left it with, changes its
\* level by 0 dB and no sample by more than rounding, whether the first pass
\* applied plain gain or limited the peak.
C22_SecondPassKeepsLoudness ==
    (written_audio # None /\ normalized_audio # None) =>
        LET first  == written_audio[1]
            change == RelativeLevelDb(first, audio[1].samples)
            lufs1  == audio[1].lufs + change
            second == NormalizedAudio(first, TARGET_LUFS_DEFAULT, lufs1).buffer
        IN  /\ change # MinusInf
            /\ RelativeLevelDb(second, first) = 0
            /\ \A i \in 1..Len(first) : Abs(second[i] - first[i]) <= 2

\* C22 witness: a peak-limited buffer has been written, and its loudness is
\* not the target, so that the second pass applies gain and limits again.
C22_Witness ==
    /\ written_audio # None /\ normalized_audio # None
    /\ did_clip
    /\ audio[1].lufs + RelativeLevelDb(written_audio[1], audio[1].samples)
           # TARGET_LUFS_DEFAULT

\* msg carries the text of an exception
CarriesExceptionText(msg) ==
    \E e \in ExceptionTexts :
        msg \in {"Errore non gestito: " \o e, "Errore lettura audio: " \o e}

\* C23 (as claimed): a task that meets a fault ends with an event, and no
\* Error event carries the text of the exception: an unexpected exception
\* in run is reported with a generic message and a failed read with a
\* classified reason.
C23_NoRawExceptionText ==
    /\ pc = "done" => TerminalsOf(emitted) # {}
    /\ \A i \in 1..Len(emitted) :
          emitted[i].sig = "error" => ~CarriesExceptionText(emitted[i].msg)

\* C24: when normalize_and_save is entered and the source path is not an
\* existing file, its next step returns success = false with the
\* source-not-found message and no measured loudness, and at that point no
\* audio has been read, the meter's rate is untouched, and nothing has been
\* created or written at the destination.
C24_MissingSourceFailsFast ==
    [][(pc = "nas_entry" /\ ~srcExists /\ pc' # pc) =>
          /\ pc' = "n_post"
          /\ ret' = Some(Ret(FALSE, "File sorgente non trovato", None))
          /\ audio' = None /\ measured_lufs' = None
          /\ normalized_audio' = None /\ written_audio' = None
          /\ UNCHANGED <<lufs_meter_rate, dest>>]_vars

\* C24 witness: normalize_and_save has returned the source-not-found result
\* for a missing source.
C24_Witness ==
    /\ pc = "n_post"
    /\ ~srcExists
    /\ ret = Some(Ret(FALSE, "File sorgente non trovato", None))
    /\ audio = None

\* the task is inside the two steps of normalize_and_save that use the
\* meter: the reset of its rate and block size, and integrated_loudness
MeterInUse == pc \in {"nas_rate", "nas_measure"}

\* C25: while a task is using the shared meter it is the only task there
\* is: the one running thread is the thread of that normalize task, so no
\* second task can reset or read the meter at the same time.
C25_MeterHasOneUser ==
    MeterInUse =>
        /\ running = {active_worker_thread}
        /\ worker_object # None /\ worker_object[1].cls = "norm"

\* C25 witness: a task that reset the meter's rate is measuring, and a
\* second task submitted meanwhile has been refused.
C25_Witness ==
    /\ pc = "nas_measure"
    /\ lufs_meter_rate # InitialMeterRate
    /\ submits >= 2 /\ ~lastStart

\* a preview task has ended with Error or Cancelled and the controller has
\* handled every event it posted
PreviewEndedBadly ==
    /\ worker_object # None /\ W.is_preview
    /\ pc = "done"
    /\ queue = <<>>
    /\ delivered # <<>> /\ Last(delivered).sig \in {"error", "cancelled"}

\* C26 (as claimed): once a preview task has ended with Error or Cancelled
\* and its events are handled, current_preview_temp_path is cleared,
\* original_file_for_preview is reset and the preview button is unchecked.
C26_PreviewStateResetAfterFailure ==
    PreviewEndedBadly =>
        /\ current_preview_temp_path = None
        /\ original_file_for_preview = None
        /\ ~preview_button_checked

\* the value load_music_files returned came from its last statements: the
\* scan was neither interrupted nor stopped by an error
ScanRanToItsEnd ==
    /\ worker_object # None /\ W.cls = "scan"
    /\ scan_ret # None
    /\ scan_ret[1].status \in {"Caricati N MP3.", "Nessun file MP3 valido trovato."}

\* C27: every non-empty list load_music_files returns is in the order of
\* the lower-cased file names, for the recursive and the non-recursive scan
\* and whatever the order in which the listings name the files.
C27_ResultSortedByFilename ==
    (scan_ret # None /\ scan_ret[1].list # <<>>) =>
        LET list == scan_ret[1].list
        IN  \A i, j \in 1..Len(list) : i < j => list[i].key <= list[j].key

\* C27 witness: a list of two files has been returned in another order than
\* the one they were found in, "a.mp3" before "B.MP3".
C27_Witness ==
    /\ scan_ret # None
    /\ Len(scan_ret[1].list) = 2
    /\ scan_ret[1].list # music_files_data
    /\ scan_ret[1].list[1].filename = "a.mp3"
    /\ scan_ret[1].list[2].filename = "B.MP3"

\* C28: a file whose duration cannot be extracted stays in the result with
\* duration_ms = 0: a scan that ran to its end returns one item for every
\* readable MP3 file it had to look at, its status names a loaded list as
\* soon as there is one such file, extracted or not, and unless a stop was
\* requested its run ends with finished.
C28_DurationFailureIsNotFatal ==
    ScanRanToItsEnd =>
        LET list  == scan_ret[1].list
            found == {e \in ScannedEntries(W, directory[1]) : e.mp3 /\ e.readable}
        IN  /\ \A e \in found : \E i \in 1..Len(list) :
                  /\ list[i].filename = e.filename
                  /\ e.length = None => list[i].duration_ms = 0
            /\ Len(list) = Cardinality(found)
            /\ found # {} => scan_ret[1].status = "Caricati N MP3."
            /\ (found # {} /\ pc = "done" /\ interruption = {}) =>
                  EndsWith(emitted, "finished")

\* C28 witness: a scan has ended with finished and a list that holds a file
\* whose duration could not be extracted, with duration 0.
C28_Witness ==
    /\ ScanRanToItsEnd
    /\ pc = "done" /\ EndsWith(emitted, "finished")
    /\ \E e \in ScannedEntries(W, directory[1]) :
          /\ e.mp3 /\ e.readable /\ e.length = None
          /\ \E i \in 1..Len(scan_ret[1].list) :
                /\ scan_ret[1].list[i].filename = e.filename
                /\ scan_ret[1].list[i].duration_ms = 0

\* C30 (as claimed): the scan tests the interruption flag once per file, in
\* the recursive walk as well as in the non-recursive listing, so that it
\* processes at most one file while the flag is set.
C30_AtMostOneFileAfterRequest ==
    (worker_object # None /\ W.cls = "scan") => processed_after_request <= 1

\* C31: a successful result of the gain path carries the message with the
\* peak-limiting note when the peak of the buffer after gain exceeded 1.0,
\* and the plain message when it did not.
C31_MessageNotesLimiting ==
    (ret # None /\ ret[1].ok /\ normalized_audio # None) =>
        LET peak == PostGainPeak(audio[1].samples,
                                 TARGET_LUFS_DEFAULT - audio[1].lufs)
        IN  ret[1].msg = IF peak > FullScale
                            THEN "Normalizzato (con peak limiting) e salvato"
                            ELSE "Normalizzato e salvato"

\* C31 witness: a run whose peak after gain was above 1.0 has returned
\* success with the peak-limiting note.
C31_Witness ==
    /\ ret # None /\ ret[1].ok /\ normalized_audio # None
    /\ PostGainPeak(audio[1].samples, TARGET_LUFS_DEFAULT - audio[1].lufs) > FullScale
    /\ ret[1].msg = "Normalizzato (con peak limiting) e salvato"

\* C32: whenever a loudness measurement is about to be made or has been
\* made, the meter's rate is the sample rate of the file read; and a result
\* that reports the failed initialization of the meter comes with no
\* measurement, no measured loudness and nothing written.
C32_MeterRateMatchesFile ==
    /\ (pc = "nas_measure" \/ measured_lufs # None) =>
          lufs_meter_rate = audio[1].rate
    /\ (ret # None /\ ret[1].msg = "Errore init LUFS meter") =>
          /\ ~ret[1].ok /\ ret[1].lufs = None
          /\ measured_lufs = None
          /\ normalized_audio = None /\ written_audio = None
          /\ dest \in {"absent", "preexisting"}

\* C32 witness: a file whose rate differs from the rate the meter was
\* created with has been measured by a meter set to the file's rate.
C32_Witness ==
    /\ measured_lufs # None
    /\ audio[1].rate # InitialMeterRate
    /\ lufs_meter_rate = audio[1].rate

\* C33: under fair scheduling of the background thread, every task that
\* was accepted comes to the end of its run, having emitted a terminal
\* signal, whether or not a stop is requested on the way.
C33_AcceptedTaskTerminates ==
    (pc \notin {"idle", "done"}) ~> (pc = "done" /\ TerminalsOf(emitted) # {})

\* C33 witness: a run has returned with cancelled after a stop request
\* that found the task past its first checkpoint.
C33_Witness ==
    /\ pc = "done"
    /\ EndsWith(emitted, "cancelled")
    /\ observed # {} /\ "pre_read" \notin observed /\ "pre_walk" \notin observed

\* the finished signals of a sequence of signals
FinishedOf(seq) == {seq[i] : i \in {j \in 1..Len(seq) : seq[j].sig = "finished"}}

\* C34: every finished signal of a normalize task, emitted or delivered,
\* carries a result with success = true and the destination path as its
\* output_path, in which delete_success is set exactly for a task that is
\* not a preview and asks for the deletion of the original, and is None for
\* a preview; and a run whose normalization failed has emitted no finished
\* signal, and ends with error when no stop was requested.
C34_FinishedCarriesSuccess ==
    (worker_object # None /\ W.cls = "norm") =>
        /\ \A s \in FinishedOf(emitted) \cup FinishedOf(delivered) :
              /\ s.res # None
              /\ s.res[1].success
              /\ s.res[1].output_path = Some("destination_path")
              /\ (s.res[1].delete_success # None)
                     <=> (~W.is_preview /\ W.delete_original)
              /\ W.is_preview => s.res[1].delete_success = None
        /\ (ret # None /\ ~ret[1].ok) =>
              /\ FinishedOf(emitted) = {}
              /\ (pc = "done" /\ interruption = {}) => EndsWith(emitted, "error")

\* C34 witness: the controller has received the finished signal of a move
\* task whose deletion of the original failed.
C34_Witness ==
    /\ worker_object # None /\ W.cls = "norm" /\ ~W.is_preview
    /\ \E s \in FinishedOf(delivered) :
          s.res[1].success /\ s.res[1].delete_success = Some(FALSE)

\* the handler of the variant of task w
HandlerOfVariant(w) ==
    IF w.cls = "scan" THEN "_on_scan_finished"
    ELSE IF w.is_preview THEN "_on_preview_generated"
                         ELSE "_on_normalize_move_finished"

\* C35 (as claimed): when the controller has handled a finished signal,
\* _on_worker_finished took the branch of the variant of the task that
\* emitted it, never the unknown-worker branch.
C35_FinishedRoutedToVariant ==
    finished_branch # None =>
        /\ finished_branch # Some("unknown worker")
        /\ finished_branch = Some(HandlerOfVariant(W))

\* C36 (as claimed): a scan whose run has returned without cancelled ended
\* with finished exactly when load_music_files returned at least one
\* record, and with error carrying the status message when the list it
\* returned was empty.
C36_EmptyScanEndsWithError ==
    (worker_object # None /\ W.cls = "scan" /\ pc = "done" /\ scan_ret # None
        /\ ~EndsWith(emitted, "cancelled")) =>
        /\ EndsWith(emitted, "finished") <=> scan_ret[1].list # <<>>
        /\ scan_ret[1].list = <<>> =>
              /\ EndsWith(emitted, "error")
              /\ Last(emitted).msg = scan_ret[1].status

\* C37 (as claimed): the clean-up of a cancelled normalize task leaves alone
\* a file that was at the destination path before the task started and that
\* the task has not written over: such a file is still there, unchanged,
\* when the task has ended.
C37_CancelKeepsPreexistingFile ==
    [][(pc = "n_cleanup" /\ dest = "preexisting" /\ written_audio = None) =>
          dest' = "preexisting"]_vars

\* the whole content of the file is at the source path or at the target path
ContentKept == mv_source = "original" \/ mv_target \in {"original", "copy"}

\* the call was refused at its entry because the source is not a file
SourceWasNoFile ==
    mv_ret = Some(MoveRet(FALSE, "Sorgente non trovato per spostamento/elim."))

\* C38: in a call of move_or_delete_original on an existing file, in move
\* mode the content of the file is at the source or at the target path in
\* every state, and success is returned only with the file at the target
\* and gone from the source; in delete mode success is returned only with
\* the source gone, and a failure leaves the source in place.
C38_MoveNeverLosesFile ==
    (mv_pc \notin {"off", "entry"} /\ ~SourceWasNoFile) =>
        IF MoveMode
           THEN /\ ContentKept
                /\ (mv_ret # None /\ mv_ret[1].ok) =>
                      mv_source = "absent" /\ mv_target \in {"original", "copy"}
           ELSE /\ (mv_ret # None /\ mv_ret[1].ok) => mv_source = "absent"
                /\ (mv_ret # None /\ ~mv_ret[1].ok) => mv_source = "original"

\* C38 witness: the rename failed across devices and the copy failed too;
\* the call has returned the failure with the file still at the source.
C38_Witness ==
    /\ mv_pc = "returned"
    /\ mv_error # None /\ CrossDevice(mv_error[1])
    /\ mv_ret = Some(MoveRet(FALSE, "Fallback copia+elimina per originale fallito"))
    /\ mv_cleanup = "none"
    /\ mv_source = "original"

\* a temporary file written by the preview task is on disk
PreviewFileOnDisk ==
    /\ worker_object # None /\ W.is_preview
    /\ dest \in {"partial", "written"}

\* the preview task is running
PreviewTaskRunning ==
    /\ worker_object # None /\ W.is_preview
    /\ pc \notin {"idle", "done"}

\* C39, first part: a preview file on disk is referred to by a running
\* preview task or by current_preview_temp_path.
C39_NoOrphanPreviewFile ==
    PreviewFileOnDisk =>
        (PreviewTaskRunning \/ current_preview_temp_path # None)

\* C39, second part: every temporary file a preview task created is
\* eventually deleted.
C39_PreviewFileEventuallyDeleted ==
    PreviewFileOnDisk ~> ~PreviewFileOnDisk

\* C39, third part: after _stop_playback current_preview_temp_path is
\* cleared and the preview button shows no preview playing.
C39_StopPlaybackClearsPath ==
    [][window' = "closed" =>
          current_preview_temp_path' = None /\ ~preview_button_checked']_vars

\* C39: every temporary preview file created by a preview task is eventually
\* deleted on every exit path, in no reachable state does a preview file
\* exist on disk that neither a running preview task nor
\* current_preview_temp_path refers to, and after _stop_playback
\* current_preview_temp_path is cleared.
C39_PreviewFileCleanedUp ==
    /\ []C39_NoOrphanPreviewFile
    /\ C39_PreviewFileEventuallyDeleted
    /\ C39_StopPlaybackClearsPath

====
